---- MODULE Spec2Model ----
(***************************************************************************)
(* Model of the dispatch stage of hotdeal-automation                        *)
(* (src/telegram_sender.py): the sent-products ledger with its primary and  *)
(* backup files, the filter/ranker, the dispatch loop of main, the per-deal *)
(* sender send_deal_to_telegram and the retry wrapper send_telegram_message.*)
(*                                                                          *)
(* A link is a sequence of characters.  A ledger is a sequence of entries   *)
(* [link, sent_date] in insertion order with pairwise distinct links (a     *)
(* Python dict); the title/price/discount snapshot of an entry is copied    *)
(* from the deal and never read again, so it is left out.                   *)
(***************************************************************************)
EXTENDS Integers, Sequences, FiniteSets, TLC

(***************************************************************************)
(* Configuration (lines 43-46).  Each value is read from the environment   *)
(* variable of the same name; the defaults are 20, 30, 3 and 500.  The      *)
(* model runs the configuration MAX_SEND_COUNT = 6, MAX_SENT_PRODUCTS = 6   *)
(* with the default threshold and retry count.                              *)
(***************************************************************************)
MIN_DISCOUNT == 20
MAX_SEND_COUNT == 6
MAX_RETRIES == 3
MAX_SENT_PRODUCTS == 6
\* the literal of "sent_count % 5 == 0" (line 407)
SAVE_INTERVAL == 5
\* MAX_RETRIES of main.py (line 28): re-runs of a failed stage of the pipeline
PIPELINE_MAX_RETRIES == 3
\* the default of upload_video's max_retries (youtube_uploader.py, line 276)
UPLOAD_MAX_RETRIES == 3
\* MAX_RETRIES of crawler.py (line 34, the default): attempts of setup_driver
CRAWLER_MAX_RETRIES == 3
\* MAX_PAGES of crawler.py (line 31, the default)
CRAWLER_MAX_PAGES == 3
\* len(urls) of get_goldbox_deals (crawler.py, lines 341-344)
GOLDBOX_URLS == 2

(***************************************************************************)
(* Bounds of the model.                                                     *)
(***************************************************************************)
\* runs of main in one behaviour
MaxRuns == 3
\* the calendar advances at most this many days
MaxDay == 1
\* faults in one behaviour: a process kill or an I/O error of a file write counts
\* one, a deal whose delivery fails for good (send_deal_to_telegram returns False)
\* counts two
MaxFaults == 2
\* rows of a batch given to filter_deals on its own
MaxRows == 3
\* items of the page the item loop of the crawler goes through
MaxItems == 2
\* calls of request.next_chunk in one call of upload_video
MaxChunkCalls == 5
\* records in the list one call of get_goldbox_deals or get_coupang_deals returns
MaxBatch == 2

(***************************************************************************)
(* Deal batches (the CSV read by load_deals).                               *)
(***************************************************************************)
\* a row of the CSV: its link, its discount, and whether its price cell holds a
\* number (an empty cell is read as NaN, and int(deal_dict['price']) of line 400
\* raises ValueError for it)
Deal(l, d) == [link |-> l, discount |-> d, price_ok |-> TRUE]
DealNaN(l, d) == [link |-> l, discount |-> d, price_ok |-> FALSE]

\* seven qualifying deals and one below the threshold
BatchA ==
    << Deal(<<"c">>, 50), Deal(<<"d">>, 45), Deal(<<"e">>, 10),
       Deal(<<"f">>, 40), Deal(<<"g">>, 35), Deal(<<"h">>, 60),
       Deal(<<"i">>, 25), Deal(<<"j">>, 20) >>

\* six other qualifying deals
BatchB ==
    << Deal(<<"k">>, 30), Deal(<<"l">>, 55), Deal(<<"m">>, 22),
       Deal(<<"n">>, 48), Deal(<<"o">>, 33), Deal(<<"p">>, 41) >>

\* two links that differ only in the query string, and one deal below the threshold
BatchQ ==
    << Deal(<<"a", "?", "1">>, 30), Deal(<<"b">>, 10), Deal(<<"a", "?", "2">>, 30) >>

\* no deal reaches the threshold
BatchLow == << Deal(<<"b">>, 10) >>

\* a qualifying row whose price cell is empty, ranked before another deal
BatchNaN == << DealNaN(<<"q">>, 30), Deal(<<"r">>, 25) >>

\* what load_deals returns: a data frame, or None (no data folder, no CSV file,
\* read error)
Df(rows) == [none |-> FALSE, rows |-> rows]
NoBatch == [none |-> TRUE, rows |-> <<>>]

Batches == {Df(BatchA), Df(BatchB), Df(BatchQ), Df(BatchLow), Df(BatchNaN), Df(<<>>), NoBatch}

(***************************************************************************)
(* Sequence helpers.                                                        *)
(***************************************************************************)
Range(s) == {s[i] : i \in 1..Len(s)}

LinksOf(ledger) == {ledger[i].link : i \in 1..Len(ledger)}

Entry(l, d) == [link |-> l, sent_date |-> d]

\* position of the first "?" of a link, 0 when there is none
FirstQuery(l) ==
    IF \E i \in 1..Len(l) : l[i] = "?"
    THEN CHOOSE i \in 1..Len(l) : l[i] = "?" /\ \A j \in 1..(i - 1) : l[j] # "?"
    ELSE 0

\* the link with everything from the first "?" removed (spec 4.1)
Normalize(l) == IF FirstQuery(l) = 0 THEN l ELSE SubSeq(l, 1, FirstQuery(l) - 1)

(***************************************************************************)
(* filter_deals (lines 161-174).                                            *)
(***************************************************************************)
\* SelectRows with > for >=
RECURSIVE SelectRowsStrict(_, _)
SelectRowsStrict(df, min_discount) ==
    IF df = <<>> THEN <<>>
    ELSE IF Head(df).discount > min_discount
         THEN <<Head(df)>> \o SelectRowsStrict(Tail(df), min_discount)
         ELSE SelectRowsStrict(Tail(df), min_discount)

\* df[df['discount'] >= min_discount]: the qualifying rows, in batch order
RECURSIVE SelectRows(_, _)
SelectRows(df, min_discount) ==
    IF df = <<>> THEN <<>>
    ELSE IF Head(df).discount >= min_discount
         THEN <<Head(df)>> \o SelectRows(Tail(df), min_discount)
         ELSE SelectRows(Tail(df), min_discount)

\* the orders sort_values(by='discount', ascending=False) may return for the rows
\* at the positions idxs of rows: non-increasing by discount.  The default sort
\* kind (quicksort) is not stable, so rows of equal discount come in any order.
RECURSIVE SortOrders(_, _)
SortOrders(rows, idxs) ==
    IF idxs = {} THEN {<<>>}
    ELSE LET top == {i \in idxs : \A j \in idxs : rows[i].discount >= rows[j].discount}
         IN  UNION {{<<rows[i]>> \o t : t \in SortOrders(rows, idxs \ {i})} : i \in top}

\* the values filter_deals may return for a batch
FilterDeals(df, min_discount) ==
    IF df.none \/ Len(df.rows) = 0 THEN {<<>>}
    ELSE LET rows == SelectRows(df.rows, min_discount)
         IN  SortOrders(rows, 1..Len(rows))

(***************************************************************************)
(* save_sent_products: the retention cap (lines 127-147).                   *)
(***************************************************************************)
\* sorted(items, key=sent_date, reverse=True): Python's sort is stable, and with
\* reverse=True entries of equal date keep their original order.
RECURSIVE InsertByDate(_, _)
InsertByDate(e, sorted) ==
    IF sorted = <<>> THEN <<e>>
    ELSE IF Head(sorted).sent_date >= e.sent_date
         THEN <<Head(sorted)>> \o InsertByDate(e, Tail(sorted))
         ELSE <<e>> \o sorted

RECURSIVE SortedItems(_)
SortedItems(ledger) ==
    IF ledger = <<>> THEN <<>>
    ELSE InsertByDate(ledger[Len(ledger)], SortedItems(SubSeq(ledger, 1, Len(ledger) - 1)))

\* Compact with the sort ascending (reverse=True forgotten): the oldest are kept
CompactOldest(ledger) ==
    IF Len(ledger) > MAX_SENT_PRODUCTS
    THEN SubSeq(SortedItems(ledger), Len(ledger) - MAX_SENT_PRODUCTS + 1, Len(ledger))
    ELSE ledger

\* the ledger save_sent_products writes for the ledger it is given
Compact(ledger) ==
    IF Len(ledger) > MAX_SENT_PRODUCTS
    THEN SubSeq(SortedItems(ledger), 1, MAX_SENT_PRODUCTS)
    ELSE ledger

(***************************************************************************)
(* send_telegram_message (lines 203-285) and send_deal_to_telegram          *)
(* (lines 287-333) as functions of what the channel answers.                *)
(***************************************************************************)
\* what one bot.send_photo / bot.send_message call does: it returns ("ok") or
\* raises; "BadRequestParse" is a BadRequest whose text holds "can't parse entities"
Retryable == {"RetryAfter", "TimedOut", "NetworkError"}
OtherErrors == {"TelegramError", "Exception"}
Outcomes == {"ok", "BadRequest", "BadRequestParse"} \cup Retryable \cup OtherErrors

\* the answers of the channel to the successive calls of one send_telegram_message
Scripts == [1..(MAX_RETRIES + 1) -> Outcomes]

\* the rest of send_telegram_message from the iteration att of the loop of line
\* 205, n calls made: [ok, calls] is the returned success and the calls made
RECURSIVE SendFrom(_, _, _)
SendFrom(outs, att, n) ==
    IF att >= MAX_RETRIES THEN [ok |-> FALSE, calls |-> n]                \* 284-285
    ELSE CASE outs[n + 1] = "ok" -> [ok |-> TRUE, calls |-> n + 1]        \* 221
           [] outs[n + 1] = "BadRequest" -> [ok |-> FALSE, calls |-> n + 1]   \* 254
           [] outs[n + 1] = "BadRequestParse" ->                          \* 233-254
                [ok |-> (outs[n + 2] = "ok"), calls |-> n + 2]
           [] outs[n + 1] \in OtherErrors ->                              \* 268-282
                IF att < MAX_RETRIES - 1
                THEN SendFrom(outs, att + 1, n + 1)
                ELSE [ok |-> FALSE, calls |-> n + 1]
           [] OTHER -> SendFrom(outs, att + 1, n + 1)                     \* 223-228, 256-266

SendTelegramMessage(outs) == SendFrom(outs, 0, 0)

\* everything send_telegram_message can return
WrapperResults == {SendTelegramMessage(outs) : outs \in Scripts}

\* send_deal_to_telegram: the text is sent unless the photo was sent
SendDealToTelegram(image_data, photo, text) ==
    IF image_data /\ photo.ok
    THEN [ok |-> TRUE, calls |-> photo.calls]                             \* 310-312
    ELSE [ok |-> text.ok,                                                 \* 317-329
          calls |-> (IF image_data THEN photo.calls ELSE 0) + text.calls]

\* everything send_deal_to_telegram can return: the photo is sent when the deal has
\* an image URL whose download succeeded (image_data)
DealResults ==
    {SendDealToTelegram(image_data, photo, text) :
        image_data \in BOOLEAN, photo \in WrapperResults, text \in WrapperResults}

(***************************************************************************)
(* The ledger files.                                                        *)
(***************************************************************************)
\* st: "missing" (the file does not exist), "ok" (a complete JSON ledger),
\* "bad_json" (json.load raises JSONDecodeError: an empty or truncated file),
\* "bad_bytes" (reading raises UnicodeDecodeError: with ensure_ascii=False a
\* truncated file can end inside a multi-byte character)
Missing == [st |-> "missing", data |-> <<>>]
Written(ledger) == [st |-> "ok", data |-> ledger]
Partial(kind) == [st |-> kind, data |-> <<>>]
PartialKinds == {"bad_json", "bad_bytes"}
\* a partial backup: how it fails to load makes no difference (line 113 catches
\* every exception)
PartialBackup == Partial("bad_json")

VARIABLES
    day,            \* the calendar date (datetime.now())
    runs,           \* runs of main started so far
    primary,        \* data/sent_products.json
    backup,         \* data/sent_products.backup.json
    pc,             \* the control point of the running main ("idle": no run)
    batch,          \* df, the batch loaded by load_deals
    filtered,       \* filtered_deals
    idx,            \* position of the loop in filtered_deals
    sent_products,  \* the in-memory ledger
    sent_count,
    already_sent_count,
    today,          \* the sent_date of this run
    to_write,       \* save_sent_products' local sent_products (after the cap)
    save_ret,       \* the caller of save_sent_products: "loop" or "end"
    success,        \* what send_deal_to_telegram returned (line 394)
    calls,          \* channel calls made for the deal the loop is at
    s_pc,           \* the control point of a send_deal_to_telegram followed step by step
    w_photo,        \* send_telegram_message was called with a photo
    attempt,        \* send_telegram_message's loop variable
    w_calls,        \* channel calls made by the running send_telegram_message
    w_result,       \* its return value: "none" (running), "true", "false"
    trace,          \* the outcomes of the channel calls of the running send_telegram_message
    d_calls,        \* channel calls made by the running send_deal_to_telegram
    d_sent,         \* messages the channel accepted for the running send_deal_to_telegram
    d_result,       \* what send_deal_to_telegram returns: "none" (running), "true", "false"
    delivered,      \* links the channel confirmed in this run
    loaded,         \* what load_sent_products returned: "primary", "backup", "empty"
    prev,           \* the previous run: its batch, its deliveries, its final save
    faults,         \* the faults so far
    main_ret,       \* how the last run of main ended: its return value, or the exception
    attempted,      \* links send_deal_to_telegram was called for in this run
    f_pc,           \* filter_deals on its own: "call", "done"
    f_df,           \* its argument df
    f_min,          \* its argument min_discount
    f_out,          \* its return value
    p_pc,           \* the control point of run_pipeline
    steps,          \* run_pipeline: the stages to run
    retry,          \* its argument retry
    step_idx,       \* position of the for loop in steps
    retry_count,
    step_success,
    p_success,      \* run_pipeline's local success
    results,        \* results["steps"]: one record per step name
    executed,       \* the run_step calls made: [idx, step, ok, slept]
    c_pc,           \* the control point of the item loop of the crawler
    c_fn,           \* "coupang" (get_coupang_deals) or "goldbox" (get_goldbox_deals)
    c_n,            \* items the loop has gone through
    c_item,         \* the item the loop went through last
    deals,          \* the crawler's list deals
    u_pc,           \* the control point of upload_video
    u_max,          \* its argument max_retries
    u_retry_count,  \* its local retry_count
    u_trace,        \* what the calls of request.next_chunk did, in order
    u_attempts,     \* iterations of its outer loop entered
    u_ret,          \* its return value: "none" (running), "id", "None", or "raised"
    b_pc,           \* the control point of a get_*_deals followed for its browser
    b_fn,           \* "coupang" (get_coupang_deals) or "goldbox" (get_goldbox_deals)
    b_url,          \* get_goldbox_deals: position of the for loop in urls
    b_attempt,      \* setup_driver's loop variable
    b_driver,       \* the local driver: 0 is None, n the n-th browser created
    b_made,         \* browsers created so far (webdriver.Chrome returned)
    b_open,         \* the browsers created and not closed
    b_after,        \* where the finally block leads: "return", "next", or "none"
    b_quit_raised,  \* the browsers whose quit() raised
    m_pc,           \* the control point of the crawler's main
    m_page,         \* its loop variable page (0: before the loop)
    m_returned,     \* what get_goldbox_deals and get_coupang_deals returned, in order
    all_deals,      \* its list all_deals
    m_saved         \* its save_deals_to_csv call: whether made, and the argument

vars ==
    << day, runs, primary, backup, pc, batch, filtered, idx, sent_products,
       sent_count, already_sent_count, today, to_write, save_ret, success, calls,
       s_pc, w_photo, attempt, w_calls, w_result, trace, d_calls, d_sent, d_result,
       delivered, loaded, prev, faults, main_ret, attempted,
       f_pc, f_df, f_min, f_out,
       p_pc, steps, retry, step_idx, retry_count, step_success, p_success, results,
       executed, c_pc, c_fn, c_n, c_item, deals,
       u_pc, u_max, u_retry_count, u_trace, u_attempts, u_ret,
       b_pc, b_fn, b_url, b_attempt, b_driver, b_made, b_open, b_after,
       b_quit_raised,
       m_pc, m_page, m_returned, all_deals, m_saved >>

\* filter_deals called on its own, run_pipeline and the crawler: the dispatch stage
\* leaves them alone
filterVars == << f_pc, f_df, f_min, f_out >>
pipeVars ==
    << p_pc, steps, retry, step_idx, retry_count, step_success, p_success, results,
       executed >>
crawlVars == << c_pc, c_fn, c_n, c_item, deals >>
\* upload_video of youtube_uploader.py
uploadVars == << u_pc, u_max, u_retry_count, u_trace, u_attempts, u_ret >>
\* the browser of get_coupang_deals and get_goldbox_deals (crawler.py)
driverVars ==
    << b_pc, b_fn, b_url, b_attempt, b_driver, b_made, b_open, b_after,
       b_quit_raised >>
\* main of crawler.py
collectVars == << m_pc, m_page, m_returned, all_deals, m_saved >>
otherVars == << uploadVars, driverVars, collectVars >>
extVars == << filterVars, pipeVars, crawlVars, otherVars >>
\* what main returns or raises, and the deals it tried
auxVars == << main_ret, attempted >>

fileVars == << primary, backup >>
\* the step-by-step sender, which the runs of main leave alone
stepVars == << s_pc, w_photo, attempt, w_calls, w_result, trace, d_calls, d_sent, d_result >>
wrapVars == << success, calls, stepVars >>
loopVars == << filtered, idx, sent_count, already_sent_count, today >>
\* the dispatch stage: everything filter_deals on its own, run_pipeline and the
\* crawler leave alone
senderVars ==
    << day, runs, fileVars, pc, batch, loopVars, sent_products, to_write, save_ret,
       wrapVars, delivered, loaded, prev, faults, auxVars >>
dispatchVars == << senderVars, otherVars >>

NoPrev == [batch |-> NoBatch, delivered |-> {}, saved |-> FALSE]

\* how a run of main ended: it has not (it runs, or the process was killed), it
\* returned (every return of main is a bare return or the end of the function:
\* lines 342, 350, 356, 365, 417), or an exception left it
NoReturn == [kind |-> "no"]
ReturnsNone == [kind |-> "None"]
Raised == [kind |-> "raised"]

\* the other components at rest
MainIdle ==
    /\ main_ret = NoReturn
    /\ attempted = {}
FilterIdle ==
    /\ f_pc = "done"
    /\ f_df = NoBatch
    /\ f_min = 0
    /\ f_out = <<>>
PipeIdle ==
    /\ p_pc = "done"
    /\ steps = <<>>
    /\ retry = FALSE
    /\ step_idx = 1
    /\ retry_count = 0
    /\ step_success = FALSE
    /\ p_success = TRUE
    /\ results = {}
    /\ executed = <<>>
\* an item of the page: the elements found in it, in document order
NoItem == [titles |-> <<>>, prices |-> <<>>, originals |-> <<>>, discounts |-> <<>>,
           anchors |-> <<>>]
CrawlIdle ==
    /\ c_pc = "done"
    /\ c_fn = "coupang"
    /\ c_n = 0
    /\ c_item = NoItem
    /\ deals = <<>>

\* the dispatch stage before its first run
DispatchIdle ==
    /\ day = 0
    /\ runs = 0
    /\ primary = Missing
    /\ backup = Missing
    /\ pc = "idle"
    /\ batch = NoBatch
    /\ filtered = <<>>
    /\ idx = 1
    /\ sent_products = <<>>
    /\ sent_count = 0
    /\ already_sent_count = 0
    /\ today = 0
    /\ to_write = <<>>
    /\ save_ret = "end"
    /\ success = FALSE
    /\ calls = 0
    /\ s_pc = "send"
    /\ w_photo = FALSE
    /\ attempt = 0
    /\ w_calls = 0
    /\ w_result = "none"
    /\ trace = <<>>
    /\ d_calls = 0
    /\ d_sent = 0
    /\ d_result = "none"
    /\ delivered = {}
    /\ loaded = "empty"
    /\ prev = NoPrev
    /\ faults = 0
    /\ MainIdle

\* upload_video has not been called
UploadIdle ==
    /\ u_pc = "done"
    /\ u_max = 0
    /\ u_retry_count = 0
    /\ u_trace = <<>>
    /\ u_attempts = 0
    /\ u_ret = "none"
\* no get_*_deals is followed for its browser
DriverIdle ==
    /\ b_pc = "idle"
    /\ b_fn = "none"
    /\ b_url = 0
    /\ b_attempt = 0
    /\ b_driver = 0
    /\ b_made = 0
    /\ b_open = {}
    /\ b_after = "none"
    /\ b_quit_raised = {}
\* what m_saved holds while save_deals_to_csv has not been called
NotSaved == [called |-> FALSE, deals |-> <<>>]
\* the crawler's main has not been called
CollectIdle ==
    /\ m_pc = "idle"
    /\ m_page = 0
    /\ m_returned = <<>>
    /\ all_deals = <<>>
    /\ m_saved = NotSaved
OtherIdle == UploadIdle /\ DriverIdle /\ CollectIdle

Init ==
    /\ DispatchIdle
    /\ FilterIdle
    /\ PipeIdle
    /\ CrawlIdle
    /\ OtherIdle

(***************************************************************************)
(* main (lines 335-417): start of a run, load_deals.                        *)
(***************************************************************************)
\* main returns: the run is over
EndRun(df, sent, saved, ret) ==
    /\ pc' = "idle"
    /\ main_ret' = ret
    /\ attempted' = {}
    \* prev is read only after a run whose final save wrote the primary file
    /\ prev' = IF saved THEN [batch |-> df, delivered |-> sent, saved |-> TRUE] ELSE NoPrev
    \* the memory of the process is gone
    /\ batch' = NoBatch
    /\ filtered' = <<>>
    /\ idx' = 1
    /\ sent_products' = <<>>
    /\ sent_count' = 0
    /\ already_sent_count' = 0
    /\ today' = 0
    /\ to_write' = <<>>
    /\ save_ret' = "end"
    /\ success' = FALSE
    /\ calls' = 0
    /\ delivered' = {}
    /\ UNCHANGED stepVars
    /\ loaded' = "empty"

StartRun(df) ==
    /\ pc = "idle"
    /\ runs < MaxRuns
    /\ runs' = runs + 1
    /\ IF df.none
       THEN EndRun(df, {}, FALSE, ReturnsNone)        \* lines 354-356
       ELSE /\ pc' = "load"
            /\ batch' = df
            /\ main_ret' = NoReturn
            /\ UNCHANGED << prev, loopVars, sent_products, to_write, save_ret,
                            wrapVars, delivered, loaded, attempted >>
    /\ UNCHANGED << day, fileVars, faults, extVars >>

\* the date changes between two runs
NextDay ==
    /\ pc = "idle"
    /\ day < MaxDay
    /\ day' = day + 1
    /\ UNCHANGED << runs, fileVars, pc, batch, loopVars, sent_products, to_write,
                    save_ret, wrapVars, delivered, loaded, prev, faults,
                    auxVars, extVars >>

(***************************************************************************)
(* load_sent_products (lines 80-122).                                       *)
(***************************************************************************)
\* load_sent_products returns
LoadReturn(ledger, from) ==
    /\ sent_products' = ledger
    /\ loaded' = from
    /\ pc' = "filter"

\* LoadRead without the handler of line 120: the error of reading a primary
\* file that is not valid UTF-8 leaves load_sent_products and main
LoadReadUnguarded ==
    /\ pc = "load"
    /\ IF primary.st = "bad_bytes"
       THEN /\ EndRun(batch, delivered, FALSE, Raised)
            /\ UNCHANGED << day, runs, fileVars, faults, extVars >>
       ELSE /\ CASE primary.st = "missing" -> LoadReturn(<<>>, "empty")
                 [] primary.st = "ok" ->
                        /\ sent_products' = primary.data
                        /\ pc' = "load_bk"
                        /\ UNCHANGED loaded
                 [] primary.st = "bad_json" ->
                        IF backup.st = "ok"
                        THEN /\ sent_products' = backup.data
                             /\ pc' = "load_rs"
                             /\ UNCHANGED loaded
                        ELSE LoadReturn(<<>>, "empty")
            /\ UNCHANGED << day, runs, fileVars, batch, loopVars, to_write, save_ret,
                            wrapVars, delivered, prev, faults, auxVars, extVars >>

\* lines 87-90 and 98-105: the reads
LoadRead ==
    /\ pc = "load"
    /\ CASE primary.st = "missing" -> LoadReturn(<<>>, "empty")
         [] primary.st = "ok" ->
                /\ sent_products' = primary.data
                /\ pc' = "load_bk"
                /\ UNCHANGED loaded
         [] primary.st = "bad_json" ->
                IF backup.st = "ok"
                THEN /\ sent_products' = backup.data
                     /\ pc' = "load_rs"
                     /\ UNCHANGED loaded
                ELSE LoadReturn(<<>>, "empty")   \* no backup, or line 113
         [] primary.st = "bad_bytes" -> LoadReturn(<<>>, "empty")   \* line 120
    /\ UNCHANGED << day, runs, fileVars, batch, loopVars, to_write, save_ret,
                    wrapVars, delivered, prev, faults,
                    auxVars, extVars >>

\* line 94: open(BACKUP_SENT_PRODUCTS_FILE, 'w') truncates the backup
LoadBackupOpen ==
    /\ pc = "load_bk"
    /\ backup' = PartialBackup
    /\ pc' = "load_bk_w"
    /\ UNCHANGED << day, runs, primary, batch, loopVars, sent_products, to_write,
                    save_ret, wrapVars, delivered, loaded, prev, faults,
                    auxVars, extVars >>

\* lines 95-97
LoadBackupWrite ==
    /\ pc = "load_bk_w"
    /\ backup' = Written(sent_products)
    /\ LoadReturn(sent_products, "primary")
    /\ UNCHANGED << day, runs, primary, batch, loopVars, to_write, save_ret,
                    wrapVars, delivered, prev, faults,
                    auxVars, extVars >>

\* line 109: open(SENT_PRODUCTS_FILE, 'w') truncates the primary
LoadRestoreOpen ==
    /\ pc = "load_rs"
    /\ primary' = Partial("bad_json")
    /\ pc' = "load_rs_w"
    /\ UNCHANGED << day, runs, backup, batch, loopVars, sent_products, to_write,
                    save_ret, wrapVars, delivered, loaded, prev, faults,
                    auxVars, extVars >>

\* lines 110-112
LoadRestoreWrite ==
    /\ pc = "load_rs_w"
    /\ primary' = Written(sent_products)
    /\ LoadReturn(sent_products, "backup")
    /\ UNCHANGED << day, runs, backup, batch, loopVars, to_write, save_ret,
                    wrapVars, delivered, prev, faults,
                    auxVars, extVars >>

\* an OSError of a write of load_sent_products: open() fails and leaves the file as
\* it was, or the dump fails and leaves it partial; lines 113 and 120 then make
\* the function return {}
LoadWriteError ==
    /\ pc \in {"load_bk", "load_bk_w", "load_rs", "load_rs_w"}
    /\ faults < MaxFaults
    /\ faults' = faults + 1
    /\ \E k \in PartialKinds :
        /\ primary' = IF pc = "load_rs_w" THEN Partial(k) ELSE primary
    /\ backup' = IF pc = "load_bk_w" THEN PartialBackup ELSE backup
    /\ LoadReturn(<<>>, "empty")
    /\ UNCHANGED << day, runs, batch, loopVars, to_write, save_ret, wrapVars,
                    delivered, prev,
                    auxVars, extVars >>

(***************************************************************************)
(* main: filtering and the dispatch loop (lines 361-414).                   *)
(***************************************************************************)
\* Filter without the return of lines 363-365: the loop is entered with no candidate
FilterProceeds ==
    /\ pc = "filter"
    /\ \E f \in FilterDeals(batch, MIN_DISCOUNT) :
        /\ filtered' = f
        /\ today' = day
        /\ idx' = 1
        /\ sent_count' = 0
        /\ already_sent_count' = 0
        /\ pc' = "loop"
        /\ UNCHANGED << prev, batch, sent_products, to_write, save_ret,
                        wrapVars, delivered, loaded, auxVars >>
    /\ UNCHANGED << day, runs, fileVars, faults, extVars >>

\* lines 362-372
Filter ==
    /\ pc = "filter"
    /\ \E f \in FilterDeals(batch, MIN_DISCOUNT) :
        IF Len(f) = 0
        THEN EndRun(batch, delivered, FALSE, ReturnsNone)   \* lines 363-365
        ELSE /\ filtered' = f
             /\ today' = day
             /\ idx' = 1
             /\ sent_count' = 0
             /\ already_sent_count' = 0
             /\ pc' = "loop"
             /\ UNCHANGED << prev, batch, sent_products, to_write, save_ret,
                             wrapVars, delivered, loaded, auxVars >>
    /\ UNCHANGED << day, runs, fileVars, faults, extVars >>

\* the deal the loop is at
CurrentDeal == filtered[idx]
\* line 385: the ledger key is the link as it stands in the batch
ProductId(deal) == deal.link

\* line 375: the iteration is over; line 414
LoopEnd ==
    /\ pc = "loop"
    /\ idx > Len(filtered)
    /\ pc' = "save"
    /\ save_ret' = "end"
    /\ UNCHANGED << day, runs, fileVars, batch, loopVars, sent_products, to_write,
                    wrapVars, delivered, loaded, prev, faults,
                    auxVars, extVars >>

\* lines 377-379
LoopBreak ==
    /\ pc = "loop"
    /\ idx <= Len(filtered)
    /\ sent_count >= MAX_SEND_COUNT
    /\ pc' = "save"
    /\ save_ret' = "end"
    /\ UNCHANGED << day, runs, fileVars, batch, loopVars, sent_products, to_write,
                    wrapVars, delivered, loaded, prev, faults,
                    auxVars, extVars >>

\* LoopSkip counting the skipped deal as sent
LoopSkipCounted ==
    /\ pc = "loop"
    /\ idx <= Len(filtered)
    /\ sent_count < MAX_SEND_COUNT
    /\ ProductId(CurrentDeal) \in LinksOf(sent_products)
    /\ already_sent_count' = already_sent_count + 1
    /\ sent_count' = sent_count + 1
    /\ idx' = idx + 1
    /\ UNCHANGED << day, runs, fileVars, pc, batch, filtered, today, sent_products,
                    to_write, save_ret, wrapVars, delivered, loaded, prev, faults,
                    auxVars, extVars >>

\* lines 388-391
LoopSkip ==
    /\ pc = "loop"
    /\ idx <= Len(filtered)
    /\ sent_count < MAX_SEND_COUNT
    /\ ProductId(CurrentDeal) \in LinksOf(sent_products)
    /\ already_sent_count' = already_sent_count + 1
    /\ idx' = idx + 1
    /\ UNCHANGED << day, runs, fileVars, pc, batch, filtered, sent_count, today,
                    sent_products, to_write, save_ret, wrapVars, delivered, loaded,
                    prev, faults,
                    auxVars, extVars >>

\* lines 394-396: send_deal_to_telegram is called for the deal and returns
Deliver ==
    /\ \E r \in DealResults :
        /\ success' = r.ok
        /\ calls' = r.calls
        /\ delivered' = IF r.ok THEN delivered \cup {CurrentDeal.link} ELSE delivered
        /\ IF r.ok
           THEN UNCHANGED faults
           ELSE faults + 2 <= MaxFaults /\ faults' = faults + 2
    /\ attempted' = attempted \cup {CurrentDeal.link}
    /\ pc' = "sent"
    /\ UNCHANGED << day, runs, fileVars, batch, loopVars, sent_products, to_write,
                    save_ret, stepVars, loaded, prev, main_ret, extVars >>

\* Send without the check of lines 377-379
SendUncapped ==
    /\ pc = "loop"
    /\ idx <= Len(filtered)
    /\ ProductId(CurrentDeal) \notin LinksOf(sent_products)
    /\ Deliver

\* lines 375-394: the next deal is not in the ledger and the cap is not reached
Send ==
    /\ pc = "loop"
    /\ idx <= Len(filtered)
    /\ sent_count < MAX_SEND_COUNT
    /\ ProductId(CurrentDeal) \notin LinksOf(sent_products)
    /\ Deliver

\* DealFailed recording the deal although its delivery failed
DealFailedRecorded ==
    /\ pc = "sent"
    /\ ~success
    /\ sent_products' = Append(sent_products, Entry(ProductId(CurrentDeal), today))
    /\ idx' = idx + 1
    /\ calls' = 0
    /\ pc' = "loop"
    /\ UNCHANGED << day, runs, fileVars, batch, filtered, sent_count,
                    already_sent_count, today, to_write, save_ret,
                    success, stepVars, delivered, loaded, prev, faults,
                    auxVars, extVars >>

\* DealFailed leaving the loop
DealFailedAborts ==
    /\ pc = "sent"
    /\ ~success
    /\ calls' = 0
    /\ pc' = "save"
    /\ save_ret' = "end"
    /\ UNCHANGED << day, runs, fileVars, batch, loopVars, sent_products, to_write,
                    success, stepVars, delivered, loaded, prev, faults,
                    auxVars, extVars >>

\* line 396 with success False: the loop goes on with the next deal
DealFailed ==
    /\ pc = "sent"
    /\ ~success
    /\ idx' = idx + 1
    /\ calls' = 0
    /\ pc' = "loop"
    /\ UNCHANGED << day, runs, fileVars, batch, filtered, sent_count,
                    already_sent_count, today, sent_products, to_write, save_ret,
                    success, stepVars, delivered, loaded, prev, faults,
                    auxVars, extVars >>

\* line 398, sent_products[product_id] = {...}: a key the dict holds keeps its
\* place and gets the new value, a new key is added at the end
DictSet(ledger, e) ==
    IF e.link \in LinksOf(ledger)
    THEN [i \in 1..Len(ledger) |-> IF ledger[i].link = e.link THEN e ELSE ledger[i]]
    ELSE Append(ledger, e)

\* Record putting the new entry in the place of the newest entry of the ledger
RecordOverwrites ==
    /\ pc = "sent"
    /\ success
    /\ CurrentDeal.price_ok
    /\ sent_products' = IF Len(sent_products) = 0
                        THEN << Entry(ProductId(CurrentDeal), today) >>
                        ELSE [sent_products EXCEPT ![Len(sent_products)] =
                                    Entry(ProductId(CurrentDeal), today)]
    /\ sent_count' = sent_count + 1
    /\ calls' = 0
    /\ IF (sent_count + 1) % SAVE_INTERVAL = 0
       THEN /\ pc' = "save"
            /\ save_ret' = "loop"
            /\ UNCHANGED idx
       ELSE /\ pc' = "loop"
            /\ idx' = idx + 1
            /\ UNCHANGED save_ret
    /\ UNCHANGED << day, runs, fileVars, batch, filtered, already_sent_count, today,
                    to_write, success, stepVars, delivered, loaded, prev, faults,
                    auxVars, extVars >>

\* lines 396-411: the delivery is recorded
Record ==
    /\ pc = "sent"
    /\ success
    /\ CurrentDeal.price_ok
    /\ sent_products' = DictSet(sent_products, Entry(ProductId(CurrentDeal), today))
    /\ sent_count' = sent_count + 1
    /\ calls' = 0
    /\ IF (sent_count + 1) % SAVE_INTERVAL = 0
       THEN /\ pc' = "save"
            /\ save_ret' = "loop"
            /\ UNCHANGED idx
       ELSE /\ pc' = "loop"
            /\ idx' = idx + 1
            /\ UNCHANGED save_ret
    /\ UNCHANGED << day, runs, fileVars, batch, filtered, already_sent_count, today,
                    to_write, success, stepVars, delivered, loaded, prev, faults,
                    auxVars, extVars >>

\* line 400: int(deal_dict['price']) raises ValueError for an empty price cell
\* (NaN); nothing in main catches it, the run ends before the entry is
\* inserted and before the save of line 414
RecordRaises ==
    /\ pc = "sent"
    /\ success
    /\ ~CurrentDeal.price_ok
    /\ EndRun(batch, delivered, FALSE, Raised)
    /\ UNCHANGED << day, runs, fileVars, faults, extVars >>

(***************************************************************************)
(* send_deal_to_telegram and send_telegram_message, one channel call per    *)
(* step (specification SpecSend).                                           *)
(***************************************************************************)
mainVars ==
    << day, runs, fileVars, pc, batch, loopVars, sent_products, to_write, save_ret,
       success, calls, delivered, loaded, prev, faults, auxVars, extVars >>

\* send_telegram_message is entered
CallWrapper(photo) ==
    /\ w_photo' = photo
    /\ attempt' = 0
    /\ w_calls' = 0
    /\ w_result' = "none"
    /\ trace' = <<>>
    /\ s_pc' = IF MAX_RETRIES > 0 THEN "attempt" ELSE "exhausted"

\* lines 299-322: with an image URL whose download succeeded the photo is sent,
\* otherwise the text
SendDeal ==
    /\ s_pc = "send"
    /\ \E image_data \in BOOLEAN : CallWrapper(image_data)
    /\ UNCHANGED << mainVars, d_calls, d_sent, d_result >>

\* lines 289-301 raise before any send (a deal without a price the format
\* "{:,}" accepts, a missing key, an exception of download_image's logging):
\* the handler of lines 331-333 returns False
SendDealRaises ==
    /\ s_pc = "send"
    /\ d_result' = "false"
    /\ s_pc' = "done"
    /\ UNCHANGED << mainVars, w_photo, attempt, w_calls, w_result, trace, d_calls, d_sent >>

\* bot.send_photo / bot.send_message is called and answers outcome
ChannelCall(outcome) ==
    /\ w_calls' = w_calls + 1
    /\ d_calls' = d_calls + 1
    /\ trace' = Append(trace, outcome)
    /\ d_sent' = IF outcome = "ok" THEN d_sent + 1 ELSE d_sent

\* send_telegram_message returns
WrapperReturn(ok) ==
    /\ w_result' = IF ok THEN "true" ELSE "false"
    /\ s_pc' = "returned"

\* NextAttempt retrying without counting the attempt
NextAttemptUncounted == UNCHANGED << attempt, w_result, s_pc >>

\* after a failed attempt the loop of line 205 goes on, or is over
NextAttempt ==
    IF attempt < MAX_RETRIES - 1
    THEN /\ attempt' = attempt + 1
         /\ UNCHANGED << w_result, s_pc >>
    ELSE /\ s_pc' = "exhausted"
         /\ UNCHANGED << attempt, w_result >>

\* lines 207-221: the channel accepts the message
AttemptOk ==
    /\ s_pc = "attempt"
    /\ ChannelCall("ok")
    /\ WrapperReturn(TRUE)
    /\ UNCHANGED << mainVars, w_photo, attempt, d_result >>

\* lines 223-228, 256-266: RetryAfter, TimedOut, NetworkError wait (except after the
\* last attempt) and fall through to the next iteration
AttemptRetryable(error) ==
    /\ s_pc = "attempt"
    /\ ChannelCall(error)
    /\ NextAttempt
    /\ UNCHANGED << mainVars, w_photo, d_result >>

\* lines 268-282: any other TelegramError or Exception waits, or returns False
\* after the last attempt
AttemptOtherError(error) ==
    /\ s_pc = "attempt"
    /\ ChannelCall(error)
    /\ IF attempt < MAX_RETRIES - 1
       THEN attempt' = attempt + 1 /\ UNCHANGED << w_result, s_pc >>
       ELSE WrapperReturn(FALSE) /\ UNCHANGED attempt
    /\ UNCHANGED << mainVars, w_photo, d_result >>

\* AttemptBadRequest handling a BadRequest like a timeout: the next iteration
\* of the loop sends again
AttemptBadRequestRetried(error) ==
    /\ s_pc = "attempt"
    /\ ChannelCall(error)
    /\ NextAttempt
    /\ UNCHANGED << mainVars, w_photo, d_result >>

\* lines 230-254: BadRequest; "can't parse entities" is sent once more without
\* parse mode, anything else returns False at once
AttemptBadRequest(error) ==
    /\ s_pc = "attempt"
    /\ ChannelCall(error)
    /\ IF error = "BadRequestParse"
       THEN s_pc' = "plain" /\ UNCHANGED w_result
       ELSE WrapperReturn(FALSE)
    /\ UNCHANGED << mainVars, w_photo, attempt, d_result >>

\* lines 236-254: the send without parse mode; any exception of it is logged
PlainSend(outcome) ==
    /\ s_pc = "plain"
    /\ ChannelCall(outcome)
    /\ WrapperReturn(outcome = "ok")
    /\ UNCHANGED << mainVars, w_photo, attempt, d_result >>

\* lines 284-285: the loop is over without a return
Exhausted ==
    /\ s_pc = "exhausted"
    /\ WrapperReturn(FALSE)
    /\ UNCHANGED << mainVars, w_photo, attempt, w_calls, trace, d_calls, d_sent, d_result >>

\* PhotoFailed without the return of lines 310-312: the text is sent after the
\* photo whatever the result of the photo
PhotoResent ==
    /\ s_pc = "returned"
    /\ w_photo
    /\ CallWrapper(FALSE)
    /\ UNCHANGED << mainVars, d_calls, d_sent, d_result >>

\* lines 310-317: the photo was not sent, the text is tried
PhotoFailed ==
    /\ s_pc = "returned"
    /\ w_result = "false"
    /\ w_photo
    /\ CallWrapper(FALSE)
    /\ UNCHANGED << mainVars, d_calls, d_sent, d_result >>

\* lines 310-312, 324-329: send_deal_to_telegram returns
DealReturn ==
    /\ s_pc = "returned"
    /\ w_result = "true" \/ ~w_photo
    /\ d_result' = w_result
    /\ s_pc' = "done"
    /\ UNCHANGED << mainVars, w_photo, attempt, w_calls, w_result, trace, d_calls, d_sent >>

\* send_deal_to_telegram is called for the next deal
SendAgain ==
    /\ s_pc = "done"
    /\ s_pc' = "send"
    /\ w_photo' = FALSE
    /\ attempt' = 0
    /\ w_calls' = 0
    /\ w_result' = "none"
    /\ trace' = <<>>
    /\ d_calls' = 0
    /\ d_sent' = 0
    /\ d_result' = "none"
    /\ UNCHANGED mainVars

NextSend ==
    \/ SendDeal
    \/ SendDealRaises
    \/ AttemptOk
    \/ \E error \in Retryable : AttemptRetryable(error)
    \/ \E error \in OtherErrors : AttemptOtherError(error)
    \/ \E error \in {"BadRequest", "BadRequestParse"} : AttemptBadRequest(error)
    \/ \E outcome \in Outcomes : PlainSend(outcome)
    \/ Exhausted
    \/ PhotoFailed
    \/ DealReturn
    \/ SendAgain

SpecSend == Init /\ [][NextSend]_vars

(***************************************************************************)
(* save_sent_products (lines 124-159).                                      *)
(***************************************************************************)
\* save_sent_products returns to its caller: the loop (line 408) or the end of
\* main (line 414); written: the primary file was written in full
SaveReturn(written) ==
    IF save_ret = "loop"
    THEN /\ pc' = "loop"
         /\ idx' = idx + 1
         /\ UNCHANGED << prev, batch, filtered, sent_count, already_sent_count,
                         today, sent_products, to_write, save_ret, wrapVars,
                         delivered, loaded, auxVars >>
    ELSE EndRun(batch, delivered, written, ReturnsNone)

\* SavePrimaryOpen applying the cap to the ledger of the caller
SavePrimaryOpenTrims ==
    /\ pc = "save"
    /\ to_write' = Compact(sent_products)
    /\ sent_products' = Compact(sent_products)
    /\ primary' = Partial("bad_json")
    /\ pc' = "save_p_w"
    /\ UNCHANGED << day, runs, backup, batch, loopVars, save_ret,
                    wrapVars, delivered, loaded, prev, faults,
                    auxVars, extVars >>

\* lines 127-150: the cap, then open(SENT_PRODUCTS_FILE, 'w') truncates the primary
SavePrimaryOpen ==
    /\ pc = "save"
    /\ to_write' = Compact(sent_products)
    /\ primary' = Partial("bad_json")
    /\ pc' = "save_p_w"
    /\ UNCHANGED << day, runs, backup, batch, loopVars, sent_products, save_ret,
                    wrapVars, delivered, loaded, prev, faults,
                    auxVars, extVars >>

\* lines 151-152
SavePrimaryWrite ==
    /\ pc = "save_p_w"
    /\ primary' = Written(to_write)
    /\ pc' = "save_b"
    /\ UNCHANGED << day, runs, backup, batch, loopVars, sent_products, to_write,
                    save_ret, wrapVars, delivered, loaded, prev, faults,
                    auxVars, extVars >>

\* line 155: open(BACKUP_SENT_PRODUCTS_FILE, 'w') truncates the backup
SaveBackupOpen ==
    /\ pc = "save_b"
    /\ backup' = PartialBackup
    /\ pc' = "save_b_w"
    /\ UNCHANGED << day, runs, primary, batch, loopVars, sent_products, to_write,
                    save_ret, wrapVars, delivered, loaded, prev, faults,
                    auxVars, extVars >>

\* SaveBackupWrite dumping the ledger of the caller instead of the capped copy
SaveBackupWriteUncapped ==
    /\ pc = "save_b_w"
    /\ backup' = Written(sent_products)
    /\ SaveReturn(TRUE)
    /\ UNCHANGED << day, runs, primary, faults, extVars >>

\* line 156
SaveBackupWrite ==
    /\ pc = "save_b_w"
    /\ backup' = Written(to_write)
    /\ SaveReturn(TRUE)
    /\ UNCHANGED << day, runs, primary, faults, extVars >>

\* an OSError of a write of save_sent_products: open() fails and leaves the file as
\* it was, or the dump fails and leaves it partial; line 158 logs it and the
\* function returns
SaveWriteError ==
    /\ pc \in {"save", "save_p_w", "save_b", "save_b_w"}
    /\ faults < MaxFaults
    /\ faults' = faults + 1
    /\ \E k \in PartialKinds :
        /\ primary' = IF pc = "save_p_w" THEN Partial(k) ELSE primary
    /\ backup' = IF pc = "save_b_w" THEN PartialBackup ELSE backup
    /\ SaveReturn(pc \in {"save_b", "save_b_w"})
    /\ UNCHANGED << day, runs, extVars >>

(***************************************************************************)
(* The process is killed (spec section 5): the run stops where it is; a file *)
(* that was being written stays partial.                                    *)
(***************************************************************************)
Kill ==
    /\ pc # "idle"
    /\ faults < MaxFaults
    /\ faults' = faults + 1
    /\ \E k \in PartialKinds :
        /\ primary' = IF pc \in {"save_p_w", "load_rs_w"} THEN Partial(k) ELSE primary
    /\ backup' = IF pc \in {"save_b_w", "load_bk_w"} THEN PartialBackup ELSE backup
    /\ EndRun(batch, delivered, FALSE, NoReturn)
    /\ UNCHANGED << day, runs, extVars >>

Next ==
    \/ \E df \in Batches : StartRun(df)
    \/ NextDay
    \/ LoadRead
    \/ LoadBackupOpen
    \/ LoadBackupWrite
    \/ LoadRestoreOpen
    \/ LoadRestoreWrite
    \/ LoadWriteError
    \/ Filter
    \/ LoopEnd
    \/ LoopBreak
    \/ LoopSkip
    \/ Send
    \/ DealFailed
    \/ Record
    \/ RecordRaises
    \/ SavePrimaryOpen
    \/ SavePrimaryWrite
    \/ SaveBackupOpen
    \/ SaveBackupWrite
    \/ SaveWriteError
    \/ Kill

Spec == Init /\ [][Next]_vars

(***************************************************************************)
(* The two models of the sender agree: what the step-by-step                *)
(* send_telegram_message returns is what SendTelegramMessage computes from  *)
(* the answers of the channel.                                              *)
(***************************************************************************)
Padded(outs) == [i \in 1..(MAX_RETRIES + 1) |-> IF i <= Len(outs) THEN outs[i] ELSE "ok"]

StepwiseAgrees ==
    s_pc = "returned" =>
        SendTelegramMessage(Padded(trace)) = [ok |-> (w_result = "true"), calls |-> w_calls]

(***************************************************************************)
(* Properties.                                                              *)
(***************************************************************************)
\* the ledger the next load_sent_products would return for the files as they are
PersistedLedger ==
    CASE primary.st = "ok" -> primary.data
      [] primary.st = "bad_json" /\ backup.st = "ok" -> backup.data
      [] OTHER -> <<>>

\* the ledger load_sent_products returned in this run: the in-memory ledger
\* without the entries of this run
LoadedLedger == SubSeq(sent_products, 1, Len(sent_products) - sent_count)

InLoop == pc \in {"loop", "sent", "save", "save_p_w", "save_b", "save_b_w"}

\* C1: when main runs twice on the same batch and the ledger was persisted in
\* between (the final save of the first run wrote the primary file, the second
\* run loaded it), the second run delivers no deal the first run delivered.
C1_SecondRunSendsNothingAgain ==
    (pc # "idle" /\ prev.saved /\ prev.batch = batch /\ loaded = "primary")
        => delivered \cap prev.delivered = {}

\* C2: deal identity is the normalized link: of the deals of a batch whose links
\* differ only in the query string at most one is delivered in a run.
C2_OneDeliveryPerNormalizedLink ==
    \A l1, l2 \in delivered : Normalize(l1) = Normalize(l2) => l1 = l2

\* C3: the in-memory ledger and the send counter change only when a delivery
\* succeeded, by exactly the delivered deal's entry; after a failed delivery
\* the loop goes on with neither changed, so the deal stays out of the ledger.
C3_LedgerOnlyOnSuccess ==
    [][ /\ (InLoop /\ pc' # "idle" /\ << sent_products, sent_count >> # << sent_products', sent_count' >>)
            => /\ pc = "sent" /\ success
               /\ sent_products' = Append(sent_products, Entry(CurrentDeal.link, today))
               /\ sent_count' = sent_count + 1
        /\ (pc = "sent" /\ ~success /\ pc' # "idle")
            => /\ sent_products' = sent_products
               /\ sent_count' = sent_count
               /\ CurrentDeal.link \notin LinksOf(sent_products')
               /\ pc' = "loop" /\ idx' = idx + 1
      ]_vars

\* a delivery failed and the loop went on: the deal before the current one is
\* not in the ledger
C3_Witness ==
    /\ pc = "loop"
    /\ idx > 1
    /\ filtered[idx - 1].link \notin LinksOf(sent_products)
    /\ filtered[idx - 1].link \notin delivered
    /\ sent_count > 0

\* C4: a run never delivers more than MAX_SEND_COUNT deals, and once that many
\* deliveries succeeded no channel call is made in the run.
C4_SendCap ==
    /\ [](sent_count <= MAX_SEND_COUNT /\ Cardinality(delivered) <= MAX_SEND_COUNT)
    /\ [][sent_count >= MAX_SEND_COUNT => (calls' = 0 /\ delivered' \subseteq delivered)]_vars

\* the loop stopped at the cap with a candidate left
C4_Witness ==
    /\ pc = "save" /\ save_ret = "end"
    /\ sent_count = MAX_SEND_COUNT
    /\ idx <= Len(filtered)

\* C5: a candidate whose link is in the ledger is skipped with no channel call,
\* no change of the ledger, of the files and of the send counter; so, when no
\* delivery failed, the loop ends with min(MAX_SEND_COUNT, number of candidates
\* not in the loaded ledger) deals sent, whatever was skipped before them.
C5_SkipIsFree ==
    /\ [][(/\ pc = "loop" /\ idx <= Len(filtered) /\ sent_count < MAX_SEND_COUNT
           /\ CurrentDeal.link \in LinksOf(sent_products)
           /\ pc' # "idle")
          => /\ calls' = calls /\ delivered' = delivered
             /\ sent_products' = sent_products /\ sent_count' = sent_count
             /\ primary' = primary /\ backup' = backup
             /\ pc' = "loop" /\ idx' = idx + 1]_vars
    /\ [](LET fresh == {filtered[i].link : i \in 1..Len(filtered)} \ LinksOf(LoadedLedger)
              n == Cardinality(fresh)
          IN  (pc = "save" /\ save_ret = "end" /\ idx - 1 = already_sent_count + sent_count)
                => sent_count = IF n < MAX_SEND_COUNT THEN n ELSE MAX_SEND_COUNT)

\* deals were skipped as already sent, and a later candidate was delivered up to
\* the end of the loop
C5_Witness ==
    /\ pc = "save" /\ save_ret = "end"
    /\ already_sent_count >= 2
    /\ sent_count >= 1
    /\ idx - 1 = already_sent_count + sent_count

\* position of an entry in a ledger
Pos(ledger, e) == CHOOSE i \in 1..Len(ledger) : ledger[i] = e

\* C6: what save_sent_products writes for a ledger of N entries: N > MAX_SENT_PRODUCTS:
\* exactly MAX_SENT_PRODUCTS of its entries, no evicted entry has a later
\* sent_date than a retained one, and of two entries of the same date the one
\* inserted first is retained; N <= MAX_SENT_PRODUCTS: the ledger as it is.
C6_Compaction ==
    pc = "save_b" =>
        LET w == primary.data
            kept == Range(w)
            evicted == Range(sent_products) \ kept
        IN  /\ primary.st = "ok"
            /\ IF Len(sent_products) > MAX_SENT_PRODUCTS
               THEN /\ Len(w) = MAX_SENT_PRODUCTS
                    /\ Cardinality(kept) = MAX_SENT_PRODUCTS
                    /\ kept \subseteq Range(sent_products)
                    /\ \A e \in evicted, r \in kept :
                        /\ e.sent_date <= r.sent_date
                        /\ e.sent_date = r.sent_date
                            => Pos(sent_products, r) < Pos(sent_products, e)
               ELSE w = sent_products

\* a save that evicts entries of an earlier date and keeps entries of two dates
C6_Witness ==
    /\ pc = "save_b"
    /\ Len(sent_products) > MAX_SENT_PRODUCTS
    /\ \E e \in Range(sent_products) \ Range(primary.data), r \in Range(primary.data) :
        e.sent_date < r.sent_date

\* C7: load_sent_products called with an invalid primary file and a valid backup
\* takes the backup's contents (and goes on to write them to the primary).
C7_RecoversFromBackup ==
    [][(pc = "load" /\ primary.st \in PartialKinds /\ backup.st = "ok" /\ pc' # "idle")
        => (sent_products' = backup.data /\ pc' = "load_rs")]_vars

\* C8: once one of the two ledger files holds a complete ledger, one of them does
\* in every later state.
C8_OneFileValid ==
    [][(primary.st = "ok" \/ backup.st = "ok") => (primary'.st = "ok" \/ backup'.st = "ok")]_vars

\* C9: in a run without a failed save, a kill or a failed delivery, at most
\* SAVE_INTERVAL deals delivered in the run are missing from the persisted ledger.
C9_BoundedLoss ==
    (faults = 0 /\ pc \in {"loop", "sent", "save"})
        => Cardinality(delivered \ LinksOf(PersistedLedger)) <= SAVE_INTERVAL

\* the handler of send_telegram_message for an answer of the channel
Answer(outcome) ==
    \/ outcome = "ok" /\ AttemptOk
    \/ outcome \in Retryable /\ AttemptRetryable(outcome)
    \/ outcome \in OtherErrors /\ AttemptOtherError(outcome)
    \/ outcome \in {"BadRequest", "BadRequestParse"} /\ AttemptBadRequest(outcome)

\* every attempt of the loop failed with an error that is retried
AllAttemptsFailed ==
    /\ Len(trace) = MAX_RETRIES
    /\ \A i \in 1..Len(trace) : trace[i] \in Retryable \cup OtherErrors

\* every step of send_telegram_message that is not a return calls the channel
EveryStepCalls ==
    [][(s_pc \in {"attempt", "plain"}) => (w_calls' = w_calls + 1)]_vars

\* C10 as stated: send_telegram_message returns after at most max_retries
\* delivery attempts (calls of the channel).
C10_AtMostMaxRetriesCalls ==
    s_pc = "returned" => w_calls <= MAX_RETRIES

\* C10 amended: send_telegram_message always ends with (True, message) or
\* (False, None) and never raises: every answer of the channel has a handler,
\* every step of it is a channel call, it makes at most max_retries iterations of
\* its loop and at most max_retries + 1 channel calls (a parse-entities
\* BadRequest is sent once more without parse mode), it returns True exactly when
\* its last call was accepted, and it returns False when all attempts failed.
C10_WrapperReturns ==
    /\ [](/\ attempt < MAX_RETRIES
          /\ w_calls <= MAX_RETRIES + 1
          /\ w_calls <= attempt + 2
          /\ s_pc = "attempt" => \A o \in Outcomes : ENABLED Answer(o)
          /\ s_pc = "plain" => \A o \in Outcomes : ENABLED PlainSend(o)
          /\ s_pc = "exhausted" => ENABLED Exhausted
          /\ s_pc = "returned" =>
                /\ w_result \in {"true", "false"}
                /\ w_result = "true" <=> (trace # <<>> /\ trace[Len(trace)] = "ok")
                /\ AllAttemptsFailed => w_result = "false")
    /\ EveryStepCalls

\* all max_retries attempts failed and send_telegram_message returned
C10_Witness ==
    s_pc = "returned" /\ AllAttemptsFailed /\ w_result = "false"

\* the transient failures other than a rate limit that send_telegram_message retries
GenericFailures == {"TimedOut", "NetworkError", "TelegramError", "Exception"}

\* the failures of the running send_telegram_message that are not rate limits
GenericFailed == Cardinality({i \in 1..Len(trace) : trace[i] \in GenericFailures})

\* C11: rate-limit retries do not consume the max_retries budget of the other
\* transient failures: when every answer of the channel was a rate limit or
\* another transient failure, send_telegram_message gives up only after
\* max_retries failures that are not rate limits.
C11_RateLimitKeepsBudget ==
    (s_pc = "returned" /\ w_result = "false"
        /\ \A i \in 1..Len(trace) : trace[i] \in Retryable \cup OtherErrors)
        => GenericFailed >= MAX_RETRIES

(***************************************************************************)
(* filter_deals (lines 161-174) called on its own, for every batch of up to *)
(* MaxRows rows and every threshold (specification SpecFilter).             *)
(***************************************************************************)
FilterDiscounts == {10, 20, 30}
FilterThresholds == {0, 20, 25, 31}

\* the link of the row at position i: i characters
RowLink(i) == [k \in 1..i |-> "r"]

\* the batch whose rows have the discounts ds
RowsOf(ds) == [i \in 1..Len(ds) |-> Deal(RowLink(i), ds[i])]

FilterInputs ==
    {NoBatch} \cup
    {Df(RowsOf(ds)) : ds \in UNION {[1..n -> FilterDiscounts] : n \in 0..MaxRows}}

InitFilter ==
    /\ DispatchIdle
    /\ PipeIdle
    /\ CrawlIdle
    /\ OtherIdle
    /\ f_pc = "call"
    /\ f_df \in FilterInputs
    /\ f_min \in FilterThresholds
    /\ f_out = <<>>

\* filter_deals(f_df, f_min) returns
FilterCall ==
    /\ f_pc = "call"
    /\ f_out' \in FilterDeals(f_df, f_min)
    /\ f_pc' = "done"
    /\ UNCHANGED << f_df, f_min, dispatchVars, pipeVars, crawlVars >>

NextFilter == FilterCall

SpecFilter == InitFilter /\ [][NextFilter]_vars

\* C12: every record filter_deals returns is a record of the batch with discount
\* >= the threshold, every record of the batch with discount >= the threshold is
\* returned (once), and the output is ordered non-increasing by discount.
C12_FilterCorrect ==
    f_pc = "done" =>
        LET rows == f_df.rows
            qualifying == {j \in 1..Len(rows) : rows[j].discount >= f_min}
        IN  /\ \A i \in 1..Len(f_out) : f_out[i] \in Range(rows) /\ f_out[i].discount >= f_min
            /\ \A j \in qualifying : \E i \in 1..Len(f_out) : f_out[i] = rows[j]
            /\ Len(f_out) = Cardinality(qualifying)
            /\ \A i, k \in 1..Len(f_out) : i < k => f_out[i].discount >= f_out[k].discount

\* filter_deals returned some rows of the batch, not all, of different discounts
C12_Witness ==
    /\ f_pc = "done"
    /\ Len(f_out) >= 2
    /\ Len(f_out) < Len(f_df.rows)
    /\ f_out[1].discount > f_out[Len(f_out)].discount
    /\ f_out[Len(f_out)].discount = f_min

\* the control points of main inside load_sent_products
LoadPcs == {"load", "load_bk", "load_bk_w", "load_rs", "load_rs_w"}

\* C13: load_sent_products never raises: no step of it ends main with an
\* exception, and it returns to main; called when neither the primary nor the
\* backup file holds a complete ledger it returns the empty ledger, and the run
\* goes on with every deal unseen.
C13_LoadDegradesToEmpty ==
    /\ [][(pc \in LoadPcs) => /\ main_ret'.kind # "raised"
                              /\ pc' \in LoadPcs \cup {"filter", "idle"}
                              /\ (pc' = "idle" => faults' = faults + 1)]_vars
    /\ [][(pc = "load" /\ primary.st # "ok" /\ backup.st # "ok" /\ pc' # "idle")
            => (sent_products' = <<>> /\ loaded' = "empty" /\ pc' = "filter")]_vars

\* load_sent_products found a corrupt primary and no usable backup and returned
\* the empty ledger
C13_Witness ==
    /\ pc = "filter"
    /\ loaded = "empty"
    /\ sent_products = <<>>
    /\ primary.st \in PartialKinds
    /\ backup.st # "ok"

\* C14: main never lets an exception escape and returns the count of items
\* sent: whenever main has ended (other than by a kill of the process) it has
\* returned a count.
C14_MainReturnsCount ==
    pc = "idle" => main_ret.kind \in {"no", "count"}

\* C15: a failed delivery does not end the loop: the loop goes on with the next
\* candidate, and when the loop is over every candidate was in the loaded
\* ledger or was tried, unless MAX_SEND_COUNT deliveries succeeded.
C15_FailureDoesNotAbort ==
    /\ [][(pc = "sent" /\ ~success /\ pc' # "idle")
            => (pc' = "loop" /\ idx' = idx + 1 /\ filtered' = filtered)]_vars
    /\ []((pc = "save" /\ save_ret = "end")
            => \/ sent_count >= MAX_SEND_COUNT
               \/ \A i \in 1..Len(filtered) :
                    filtered[i].link \in LinksOf(LoadedLedger) \cup attempted)

\* the loop is over, the delivery of a deal failed and a lower-ranked deal was
\* delivered after it
C15_Witness ==
    /\ pc = "save" /\ save_ret = "end"
    /\ \E i, k \in 1..Len(filtered) :
        /\ i < k
        /\ filtered[i].link \in attempted \ delivered
        /\ filtered[k].link \in delivered

(***************************************************************************)
(* run_pipeline (main.py, lines 98-163), specification SpecPipe.            *)
(***************************************************************************)
PIPELINE_STEPS ==
    << "crawler", "telegram_sender", "script_generator", "tts_generator",
       "video_frame_generator", "video_renderer", "youtube_uploader" >>

\* list.index
IndexOf(seq, x) == CHOOSE i \in 1..Len(seq) : seq[i] = x /\ \A j \in 1..(i - 1) : seq[j] # x

\* lines 100-112: the stages to run; "none" stands for None (argument not given)
StepsToRun(steps_arg, start_from, end_at) ==
    IF steps_arg # <<"none">> THEN steps_arg
    ELSE LET start_index == IF start_from # "none" /\ start_from \in Range(PIPELINE_STEPS)
                            THEN IndexOf(PIPELINE_STEPS, start_from) - 1
                            ELSE 0
             end_index == IF end_at # "none" /\ end_at \in Range(PIPELINE_STEPS)
                          THEN IndexOf(PIPELINE_STEPS, end_at)
                          ELSE Len(PIPELINE_STEPS)
         IN  SubSeq(PIPELINE_STEPS, start_index + 1, end_index)

\* the arguments run_pipeline is called with
StepsArgs == {<<"none">>, <<"telegram_sender", "crawler">>}
StartFromArgs == {"none", "telegram_sender", "video_renderer"}
EndAtArgs == {"none", "crawler", "tts_generator"}

\* lines 98-121: run_pipeline is called
RunPipeline(steps_arg, start_from, end_at, retry_arg) ==
    /\ p_pc = "done"
    /\ steps' = StepsToRun(steps_arg, start_from, end_at)
    /\ retry' = retry_arg
    /\ results' = {}
    /\ p_success' = TRUE
    /\ step_idx' = 1
    /\ retry_count' = 0
    /\ step_success' = FALSE
    /\ executed' = <<>>
    /\ p_pc' = "for"
    /\ UNCHANGED << dispatchVars, filterVars, crawlVars >>

\* lines 122-125: the next stage, or the end of the list
ForStep ==
    /\ p_pc = "for"
    /\ IF step_idx <= Len(steps)
       THEN /\ step_success' = FALSE
            /\ retry_count' = 0
            /\ p_pc' = "while"
       ELSE /\ p_pc' = "save"
            /\ UNCHANGED << step_success, retry_count >>
    /\ UNCHANGED << steps, retry, step_idx, p_success, results, executed,
                    dispatchVars, filterVars, crawlVars >>

\* RunStep running a failed stage again whatever retry is
RunStepAlways(ok) ==
    /\ p_pc = "while"
    /\ ~step_success /\ retry_count <= PIPELINE_MAX_RETRIES
    /\ step_success' = ok
    /\ executed' = Append(executed, [idx |-> step_idx, step |-> steps[step_idx], ok |-> ok,
                                     slept |-> retry_count > 0])
    /\ IF ~ok /\ retry_count < PIPELINE_MAX_RETRIES
       THEN /\ retry_count' = retry_count + 1
            /\ UNCHANGED p_pc
       ELSE /\ p_pc' = "record"
            /\ UNCHANGED retry_count
    /\ UNCHANGED << steps, retry, step_idx, p_success, results,
                    dispatchVars, filterVars, crawlVars >>

\* lines 128-138: run_step is called and returns ok (False for a missing script,
\* a timeout, a non-zero exit code or an exception, lines 45-96); a failed stage
\* is run again when retry is set and retry_count < MAX_RETRIES; before a re-run
\* (retry_count > 0) lines 129-131 sleep for RETRY_DELAY.  The condition
\* of the while is true whenever it is evaluated.
RunStep(ok) ==
    /\ p_pc = "while"
    /\ ~step_success /\ retry_count <= PIPELINE_MAX_RETRIES
    /\ step_success' = ok
    /\ executed' = Append(executed, [idx |-> step_idx, step |-> steps[step_idx], ok |-> ok,
                                     slept |-> retry_count > 0])
    /\ IF ~ok /\ retry /\ retry_count < PIPELINE_MAX_RETRIES
       THEN /\ retry_count' = retry_count + 1
            /\ UNCHANGED p_pc
       ELSE /\ p_pc' = "record"
            /\ UNCHANGED retry_count
    /\ UNCHANGED << steps, retry, step_idx, p_success, results,
                    dispatchVars, filterVars, crawlVars >>

\* what lines 142-148 store for the stage
StepResult == [step |-> steps[step_idx], success |-> step_success, retries |-> retry_count]

\* RecordStep going on with the next stage after a failed one
RecordStepContinues ==
    /\ p_pc = "record"
    /\ results' = {r \in results : r.step # steps[step_idx]} \cup {StepResult}
    /\ p_success' = (p_success /\ step_success)
    /\ step_idx' = step_idx + 1
    /\ p_pc' = "for"
    /\ UNCHANGED << steps, retry, retry_count, step_success, executed,
                    dispatchVars, filterVars, crawlVars >>

\* lines 141-154: the result of the stage is stored; a failed stage ends the loop
RecordStep ==
    /\ p_pc = "record"
    /\ results' = {r \in results : r.step # steps[step_idx]} \cup {StepResult}
    /\ IF ~step_success
       THEN /\ p_success' = FALSE
            /\ p_pc' = "save"
            /\ UNCHANGED step_idx
       ELSE /\ step_idx' = step_idx + 1
            /\ p_pc' = "for"
            /\ UNCHANGED p_success
    /\ UNCHANGED << steps, retry, retry_count, step_success, executed,
                    dispatchVars, filterVars, crawlVars >>

\* lines 157-163: run_pipeline returns (success, results)
PipelineReturn ==
    /\ p_pc = "save"
    /\ p_pc' = "done"
    /\ UNCHANGED << steps, retry, step_idx, retry_count, step_success, p_success,
                    results, executed, dispatchVars, filterVars, crawlVars >>

NextPipe ==
    \/ \E steps_arg \in StepsArgs, start_from \in StartFromArgs, end_at \in EndAtArgs,
          retry_arg \in BOOLEAN :
            RunPipeline(steps_arg, start_from, end_at, retry_arg)
    \/ ForStep
    \/ \E ok \in BOOLEAN : RunStep(ok)
    \/ RecordStep
    \/ PipelineReturn

SpecPipe == Init /\ [][NextPipe]_vars

\* the stage at position j of steps was run with success before the k-th run_step
SucceededBefore(j, k) ==
    \E m \in 1..(k - 1) : executed[m].idx = j /\ executed[m].ok

\* C16: in run_pipeline the stages run in the order of the list, a stage is
\* started only after every earlier stage of the list has succeeded, and once a
\* stage has failed for good no later stage is run and the result is failure.
C16_PipelineHalts ==
    /\ \A k \in 1..Len(executed) :
        /\ executed[k].idx \in 1..Len(steps)
        /\ executed[k].step = steps[executed[k].idx]
        /\ \A m \in 1..(k - 1) : executed[m].idx <= executed[k].idx
        /\ \A j \in 1..(executed[k].idx - 1) : SucceededBefore(j, k)
    /\ \A r \in results :
        ~r.success => /\ ~p_success \/ p_pc = "record"
                      /\ \A k \in 1..Len(executed) : steps[executed[k].idx] = r.step
                            \/ executed[k].idx < step_idx
                      /\ p_pc \in {"save", "done"}
    /\ p_pc = "done" =>
        (p_success <=> \A j \in 1..Len(steps) : SucceededBefore(j, Len(executed) + 1))

\* run_pipeline returned failure: a stage failed after its re-runs, following a
\* stage that succeeded, and a later stage was not run
C16_Witness ==
    /\ p_pc = "done"
    /\ ~p_success
    /\ Len(steps) >= 3
    /\ \E k \in 1..Len(executed) : executed[k].ok
    /\ Len(executed) > PIPELINE_MAX_RETRIES + 1
    /\ \A k \in 1..Len(executed) : executed[k].idx < Len(steps)

\* the batch is missing, empty, or holds no row with discount >= MIN_DISCOUNT
NothingToDo(df) ==
    df.none \/ \A i \in 1..Len(df.rows) : df.rows[i].discount < MIN_DISCOUNT

C18_RecordIsPureInsert ==
    /\ [][(pc = "sent" /\ success /\ pc' # "idle")
            => /\ ProductId(CurrentDeal) \notin LinksOf(sent_products)
               /\ ProductId(CurrentDeal) \in LinksOf(sent_products')
               /\ Len(sent_products') = Len(sent_products) + 1
               /\ SubSeq(sent_products', 1, Len(sent_products)) = sent_products]_vars
    /\ [][((InLoop \/ pc = "filter") /\ pc' # "idle")
            => /\ Len(sent_products') >= Len(sent_products)
               /\ SubSeq(sent_products', 1, Len(sent_products)) = sent_products]_vars
    /\ [](\A i, j \in 1..Len(sent_products) :
            sent_products[i].link = sent_products[j].link => i = j)

\* deliveries were recorded in a ledger that held entries before the run, and
\* the ledger now holds more entries than the cap
C18_Witness ==
    /\ pc = "loop"
    /\ sent_count >= 2
    /\ Len(LoadedLedger) >= 1
    /\ Len(sent_products) > MAX_SENT_PRODUCTS

(***************************************************************************)
(* The item loop of get_coupang_deals (crawler.py, lines 211-322) and of    *)
(* get_goldbox_deals (lines 429-530), specification SpecCrawl.  A text is   *)
(* a sequence of characters; image_url, category and crawled_at are left    *)
(* out: no step of the loop reads them.                                     *)
(***************************************************************************)
\* an element of an item: the selector it matches and its text
Elem(sel, text) == [sel |-> sel, text |-> text]
NoElem == [sel |-> "none", text |-> <<>>]
\* an anchor: its class selector ("a" for none), has_attr("href") and the href,
\* as a sequence of path segments
Anchor(cls, has, href) == [cls |-> cls, has_href |-> has, href |-> href]

\* item.select_one(selector): the first element that matches
SelectOne(elems, sel) ==
    IF \E i \in 1..Len(elems) : elems[i].sel = sel
    THEN elems[CHOOSE i \in 1..Len(elems) :
                    elems[i].sel = sel /\ \A j \in 1..(i - 1) : elems[j].sel # sel]
    ELSE NoElem

\* str.strip
RECURSIVE LStrip(_)
LStrip(t) == IF t # <<>> /\ Head(t) = " " THEN LStrip(Tail(t)) ELSE t
RECURSIVE RStrip(_)
RStrip(t) == IF t # <<>> /\ t[Len(t)] = " " THEN RStrip(SubSeq(t, 1, Len(t) - 1)) ELSE t
Strip(t) == RStrip(LStrip(t))

\* the characters int() reads
DecimalDigits == {"0", "1", "2", "3", "4", "5", "6", "7", "8", "9"}
\* str.isdigit is also true of digits int() does not read, such as a superscript
IsDigit(c) == c \in DecimalDigits \cup {"²"}
\* ''.join(filter(str.isdigit, text))
DigitsOf(t) == SelectSeq(t, IsDigit)

DigitValue(c) ==
    CASE c = "0" -> 0 [] c = "1" -> 1 [] c = "2" -> 2 [] c = "3" -> 3 [] c = "4" -> 4
      [] c = "5" -> 5 [] c = "6" -> 6 [] c = "7" -> 7 [] c = "8" -> 8 [] c = "9" -> 9
\* int(text) of a text of decimal digits
RECURSIVE IntOf(_)
IntOf(t) == IF t = <<>> THEN 0 ELSE 10 * IntOf(SubSeq(t, 1, Len(t) - 1)) + DigitValue(t[Len(t)])

\* the loops over price, original-price and discount selectors: the first
\* selector whose element has digits gives the value; int() raises ValueError
\* when a digit is not a decimal one
RECURSIVE ScanInt(_, _)
ScanInt(sels, elems) ==
    IF sels = <<>> THEN [raised |-> FALSE, value |-> 0]
    ELSE LET e == SelectOne(elems, Head(sels))
             d == DigitsOf(Strip(e.text))
         IN  IF e # NoElem /\ d # <<>>
             THEN IF \A i \in 1..Len(d) : d[i] \in DecimalDigits
                  THEN [raised |-> FALSE, value |-> IntOf(d)]
                  ELSE [raised |-> TRUE, value |-> 0]
             ELSE ScanInt(Tail(sels), elems)

\* the loop over title selectors: the first selector that has an element gives
\* the title, also when its text is blank
RECURSIVE ScanTitle(_, _)
ScanTitle(sels, elems) ==
    IF sels = <<>> THEN <<>>
    ELSE LET e == SelectOne(elems, Head(sels))
         IN  IF e # NoElem THEN Strip(e.text) ELSE ScanTitle(Tail(sels), elems)

\* "/vp/" in href or "/np/" in href
ProductHref(a) == a.has_href /\ \E i \in 1..Len(a.href) : a.href[i] \in {"/vp/", "/np/"}
\* item.select(selector) for the anchor selectors: "a" matches every anchor
Matching(anchors, sel) == SelectSeq(anchors, LAMBDA a : sel = "a" \/ a.cls = sel)
\* the loop over link selectors
RECURSIVE ScanLink(_, _)
ScanLink(sels, anchors) ==
    IF sels = <<>> THEN <<>>
    ELSE LET found == SelectSeq(Matching(anchors, Head(sels)), ProductHref)
         IN  IF found # <<>>
             THEN << "https://www.coupang.com" >> \o found[1].href
             ELSE ScanLink(Tail(sels), anchors)

\* round(x / y * 100) for 0 <= x <= y, y > 0: Python rounds a half to the even
\* neighbour.  The quotients of the prices of Items are exact as floats or not
\* within a float's error of a half.
RoundPercent(x, y) ==
    LET q == (x * 100) \div y
        r == (x * 100) % y
    IN  IF 2 * r < y THEN q
        ELSE IF 2 * r > y THEN q + 1
        ELSE IF q % 2 = 0 THEN q ELSE q + 1

\* the selector lists of the two functions (lines 228-285 and 446-503)
TitleSelectors(fn) ==
    IF fn = "coupang" THEN << "div.name", "div.product-name", "div.title" >>
    ELSE << "div.name", "div.title", "div.product-name" >>
PriceSelectors(fn) ==
    IF fn = "coupang" THEN << "strong.price-value", "strong.price", "em.sale", "div.price" >>
    ELSE << "strong.price-value", "strong.price", "div.price" >>
OriginalPriceSelectors(fn) ==
    IF fn = "coupang" THEN << "del.base-price", "span.origin-price", "del.original-price" >>
    ELSE << "span.base-price", "del.base-price", "del.original-price" >>
DiscountSelectors(fn) ==
    IF fn = "coupang"
    THEN << "span.discount-rate", "span.discount-percentage", "div.discount-rate" >>
    ELSE << "span.discount-percentage", "span.discount-rate", "div.discount-rate" >>
LinkSelectors(fn) ==
    IF fn = "coupang" THEN << "a.baby-product-link", "a.product-link", "a" >>
    ELSE << "a.product-link", "a" >>

\* the body of the loop for one item: status "append" with the record that is
\* appended, "skip" for the continue statements and the failed final test,
\* "raise" for an exception, which the handler of the loop turns into a continue
Extract(fn, item) ==
    LET title == ScanTitle(TitleSelectors(fn), item.titles)
        price == ScanInt(PriceSelectors(fn), item.prices)
        scraped == ScanInt(OriginalPriceSelectors(fn), item.originals)
        original_price == IF scraped.value = 0 THEN price.value ELSE scraped.value
        rate == ScanInt(DiscountSelectors(fn), item.discounts)
        discount == IF rate.value = 0 /\ original_price > price.value
                    THEN RoundPercent(original_price - price.value, original_price)
                    ELSE rate.value
        link == ScanLink(LinkSelectors(fn), item.anchors)
        info == [title |-> title, price |-> price.value,
                 original_price |-> original_price, discount |-> discount, link |-> link]
    IN  IF title = <<>> THEN [status |-> "skip", info |-> info]
        ELSE IF price.raised THEN [status |-> "raise", info |-> info]
        ELSE IF price.value = 0 THEN [status |-> "skip", info |-> info]
        ELSE IF scraped.raised \/ rate.raised THEN [status |-> "raise", info |-> info]
        ELSE IF title # <<>> /\ price.value > 0 /\ link # <<>>
             THEN [status |-> "append", info |-> info]
             ELSE [status |-> "skip", info |-> info]

\* the texts of the pages
T_Name == << " ", "T", " " >>
T_Blank == << " " >>
P_None == << "-" >>
P_Zero == << "0", "원" >>
P_Five == << "5", "원" >>
P_Eight == << "8" >>
P_Ten == << "1", ",", "0" >>
P_Sup == << "5", "²" >>
P_Rate == << "3", "0", "%" >>
P_ZeroRate == << "0", "%" >>
P_OverRate == << "1", "5", "0", "%" >>

TitleElems ==
    { <<>>,
      << Elem("div.name", T_Blank), Elem("div.title", T_Name) >>,
      << Elem("div.title", T_Name) >> }
PriceElems ==
    { <<>>,
      << Elem("strong.price", P_Zero) >>,
      << Elem("strong.price-value", P_None), Elem("div.price", P_Ten) >>,
      << Elem("em.sale", P_Five), Elem("div.price", P_Ten) >>,
      << Elem("strong.price", P_Sup) >> }
OriginalElems ==
    { <<>>,
      << Elem("del.base-price", P_Zero) >>,
      << Elem("del.base-price", P_Ten) >>,
      << Elem("span.origin-price", P_None), Elem("del.original-price", P_Eight) >>,
      << Elem("span.base-price", P_Five), Elem("del.base-price", P_Ten) >> }
DiscountElems ==
    { <<>>,
      << Elem("span.discount-rate", P_Rate) >>,
      << Elem("span.discount-percentage", P_OverRate),
         Elem("span.discount-rate", P_ZeroRate) >> }
AnchorElems ==
    { <<>>,
      << Anchor("a", FALSE, <<>>), Anchor("a", TRUE, << "/x/", "1" >>) >>,
      << Anchor("a", TRUE, << "/np/", "2" >>),
         Anchor("a.product-link", TRUE, << "/vp/", "1" >>) >> }

\* the items a page can hold
Items ==
    [titles : TitleElems, prices : PriceElems, originals : OriginalElems,
     discounts : DiscountElems, anchors : AnchorElems]

\* the body of the loop, tabulated for the items of Items
Extracted == [fn \in {"coupang", "goldbox"}, item \in Items |-> Extract(fn, item)]

\* lines 211 and 429: deals = [], before the first item
CrawlStart(fn) ==
    /\ c_pc = "done"
    /\ c_pc' = "items"
    /\ c_fn' = fn
    /\ c_n' = 0
    /\ c_item' = NoItem
    /\ deals' = <<>>
    /\ UNCHANGED << dispatchVars, filterVars, pipeVars >>

\* one iteration of the loop that reaches deals.append (lines 315-316)
ItemAppended(item) ==
    /\ c_pc = "items"
    /\ c_n < MaxItems
    /\ Extracted[c_fn, item].status = "append"
    /\ deals' = Append(deals, Extracted[c_fn, item].info)
    /\ c_n' = c_n + 1
    /\ c_item' = item
    /\ UNCHANGED << c_pc, c_fn, dispatchVars, filterVars, pipeVars >>

\* ItemSkipped without the continue statements and the test of line 315: the
\* record is appended as far as it was filled
ItemSkippedKept(item) ==
    /\ c_pc = "items"
    /\ c_n < MaxItems
    /\ Extracted[c_fn, item].status = "skip"
    /\ deals' = Append(deals, Extracted[c_fn, item].info)
    /\ c_n' = c_n + 1
    /\ c_item' = item
    /\ UNCHANGED << c_pc, c_fn, dispatchVars, filterVars, pipeVars >>

\* one iteration that ends at a continue (lines 237, 252) or fails the test of line 315
ItemSkipped(item) ==
    /\ c_pc = "items"
    /\ c_n < MaxItems
    /\ Extracted[c_fn, item].status = "skip"
    /\ c_n' = c_n + 1
    /\ c_item' = item
    /\ UNCHANGED << c_pc, c_fn, deals, dispatchVars, filterVars, pipeVars >>

\* one iteration that raises: lines 318-320, continue
ItemRaised(item) ==
    /\ c_pc = "items"
    /\ c_n < MaxItems
    /\ Extracted[c_fn, item].status = "raise"
    /\ c_n' = c_n + 1
    /\ c_item' = item
    /\ UNCHANGED << c_pc, c_fn, deals, dispatchVars, filterVars, pipeVars >>

\* line 322: the items are exhausted, return deals
CrawlReturn ==
    /\ c_pc = "items"
    /\ c_pc' = "done"
    /\ UNCHANGED << c_fn, c_n, c_item, deals, dispatchVars, filterVars, pipeVars >>

NextCrawl ==
    \/ \E fn \in {"coupang", "goldbox"} : CrawlStart(fn)
    \/ \E item \in Items : ItemAppended(item)
    \/ \E item \in Items : ItemSkipped(item)
    \/ \E item \in Items : ItemRaised(item)
    \/ CrawlReturn

SpecCrawl == Init /\ [][NextCrawl]_vars

\* what the page shows of an item, for the function that reads it
HasTitle(fn, item) ==
    \E i \in 1..Len(TitleSelectors(fn)) :
        /\ SelectOne(item.titles, TitleSelectors(fn)[i]) # NoElem
        /\ \A j \in 1..(i - 1) : SelectOne(item.titles, TitleSelectors(fn)[j]) = NoElem
        /\ \E k \in 1..Len(SelectOne(item.titles, TitleSelectors(fn)[i]).text) :
                SelectOne(item.titles, TitleSelectors(fn)[i]).text[k] # " "
\* the price texts of the item that hold a digit, in the order of the selectors
PriceTexts(fn, item) ==
    SelectSeq([i \in 1..Len(PriceSelectors(fn)) |->
                    SelectOne(item.prices, PriceSelectors(fn)[i]).text],
              LAMBDA t : \E k \in 1..Len(t) : IsDigit(t[k]))
HasPrice(fn, item) ==
    /\ PriceTexts(fn, item) # <<>>
    /\ \E k \in 1..Len(PriceTexts(fn, item)[1]) :
            PriceTexts(fn, item)[1][k] \in DecimalDigits \ {"0"}
HasLink(item) == \E i \in 1..Len(item.anchors) : ProductHref(item.anchors[i])
\* an original-price element of the item holds a digit
HasOriginal(fn, item) ==
    \E i \in 1..Len(OriginalPriceSelectors(fn)) :
        \E k \in 1..Len(SelectOne(item.originals, OriginalPriceSelectors(fn)[i]).text) :
            IsDigit(SelectOne(item.originals, OriginalPriceSelectors(fn)[i]).text[k])

\* C19: every record in deals has a non-empty title, price > 0 and a non-empty
\* link; an iteration for an item without a title, a price or a link, or one
\* that raises, leaves deals as it is and leaves the loop running, so that the
\* following item is read; an iteration that appends, appends one record made
\* from an item that has all three.
C19_RecordsComplete ==
    /\ [](\A i \in 1..Len(deals) :
            deals[i].title # <<>> /\ deals[i].price > 0 /\ deals[i].link # <<>>)
    /\ [][(c_pc = "items" /\ c_n' = c_n + 1)
            => /\ c_pc' = "items"
               /\ (~HasTitle(c_fn, c_item') \/ ~HasPrice(c_fn, c_item') \/ ~HasLink(c_item')
                        \/ Extract(c_fn, c_item').status = "raise")
                    => deals' = deals
               /\ deals' # deals
                    => /\ HasTitle(c_fn, c_item') /\ HasPrice(c_fn, c_item') /\ HasLink(c_item')
                       /\ Len(deals') = Len(deals) + 1
                       /\ SubSeq(deals', 1, Len(deals)) = deals]_vars

\* after an item that was dropped, the next item was appended
C19_Witness ==
    /\ c_pc = "items"
    /\ c_n = 2
    /\ Len(deals) = 1
    /\ Extract(c_fn, c_item).status = "append"

\* a record made from an item without a digit in an original-price element
\* has original_price = price (lines 266-267)
OriginalDefaultsToPrice ==
    [][(c_pc = "items" /\ Len(deals') = Len(deals) + 1 /\ ~HasOriginal(c_fn, c_item'))
        => deals'[Len(deals')].original_price = deals'[Len(deals')].price]_vars

\* C20: every record in deals has original_price >= price.
C20_OriginalAtLeastPrice ==
    \A i \in 1..Len(deals) : deals[i].original_price >= deals[i].price

\* C21: every record in deals has a discount between 0 and 100.
C21_DiscountInRange ==
    \A i \in 1..Len(deals) : deals[i].discount \in 0..100

\* a record whose item shows no discount other than 0 has the discount computed
\* from its prices (line 282) when original_price > price, and 0 otherwise;
\* the computed discount is between 0 and 100
DiscountComputed ==
    [][(c_pc = "items" /\ Len(deals') = Len(deals) + 1
            /\ ScanInt(DiscountSelectors(c_fn), c_item'.discounts).value = 0)
        => LET d == deals'[Len(deals')]
           IN  /\ d.discount \in 0..100
               /\ d.discount = IF d.original_price > d.price
                               THEN RoundPercent(d.original_price - d.price, d.original_price)
                               ELSE 0]_vars

\* the position in the batch f_df of a row filter_deals returned
BatchPos(row) == CHOOSE j \in 1..Len(f_df.rows) : f_df.rows[j] = row

\* C22: in the output of filter_deals two records of equal discount are in the
\* order they have in the batch.
C22_TiesKeepBatchOrder ==
    f_pc = "done" =>
        \A i, k \in 1..Len(f_out) :
            (i < k /\ f_out[i].discount = f_out[k].discount)
                => BatchPos(f_out[i]) < BatchPos(f_out[k])

\* run_step and time.sleep return (run_step ends its subprocess at the timeout,
\* lines 60-83), so every step of run_pipeline that can be taken is taken
SpecPipeFair ==
    /\ SpecPipe
    /\ WF_vars(ForStep)
    /\ WF_vars(\E ok \in BOOLEAN : RunStep(ok))
    /\ WF_vars(RecordStep)
    /\ WF_vars(PipelineReturn)

\* the run_step calls made for the stage at position j of steps
Execs(j) == {k \in 1..Len(executed) : executed[k].idx = j}

\* C23: the stage retry bound of run_pipeline.  When the loop of a stage is
\* left, retry_count (the recorded 'retries') is the number of re-runs of the
\* stage; a stage that failed was run MAX_RETRIES + 1 times with retry enabled
\* and once with retry disabled; a run_step call slept for the cooldown before
\* it exactly when it is a re-run; no stage is run again after a call that
\* succeeded; and run_pipeline returns.
C23_StageRetryBound ==
    /\ [](p_pc = "record" =>
            /\ retry_count = Cardinality(Execs(step_idx)) - 1
            /\ (~step_success /\ retry) => Cardinality(Execs(step_idx)) = PIPELINE_MAX_RETRIES + 1
            /\ ~retry => Cardinality(Execs(step_idx)) = 1)
    /\ [](\A r \in results : r.retries = Cardinality(Execs(IndexOf(steps, r.step))) - 1)
    /\ [](\A k \in 1..Len(executed) :
            /\ executed[k].slept <=> (k > 1 /\ executed[k - 1].idx = executed[k].idx)
            /\ (executed[k].ok /\ k < Len(executed)) => executed[k + 1].idx > executed[k].idx
            /\ Cardinality(Execs(executed[k].idx)) <= PIPELINE_MAX_RETRIES + 1)
    /\ (p_pc # "done") ~> (p_pc = "done")

\* run_pipeline returned after a stage that succeeded at a re-run and a stage
\* that failed at every one of its MAX_RETRIES + 1 runs
C23_Witness ==
    /\ p_pc = "done"
    /\ retry
    /\ \E r \in results : r.success /\ r.retries \in 1..PIPELINE_MAX_RETRIES
    /\ \E r \in results :
        /\ ~r.success /\ r.retries = PIPELINE_MAX_RETRIES
        /\ Cardinality(Execs(IndexOf(steps, r.step))) = PIPELINE_MAX_RETRIES + 1

\* C24: in one call of send_deal_to_telegram the channel accepts at most one
\* message; send_telegram_message is entered for the text only at the start of
\* the call or after the send of the photo returned failure, with no message
\* accepted so far; after a send that succeeded the function returns True; it
\* returns True or False, and True exactly when one send succeeded.
C24_AtMostOneMessage ==
    /\ [](d_sent <= 1)
    /\ [](s_pc = "done" => /\ d_result \in {"true", "false"}
                           /\ d_result = "true" <=> d_sent = 1)
    /\ [][(s_pc \in {"send", "returned"} /\ s_pc' \in {"attempt", "exhausted"} /\ ~w_photo')
            => /\ d_sent = 0
               /\ s_pc = "send" \/ (w_photo /\ w_result = "false")]_vars
    /\ [][(s_pc = "returned" /\ w_result = "true")
            => (s_pc' = "done" /\ d_result' = "true")]_vars

\* send_deal_to_telegram returned True for the text, sent after the send of the
\* photo had failed
C24_Witness ==
    /\ s_pc = "done"
    /\ d_result = "true"
    /\ d_sent = 1
    /\ ~w_photo
    /\ d_calls > w_calls

\* C25: a BadRequest is not retried by send_telegram_message.  After a
\* BadRequest other than a parse error the wrapper returns failure at once;
\* after a parse error it makes one call without parse mode and returns, with
\* success when that call succeeded; so a BadRequest is the answer to the last
\* call of the wrapper, or, for a parse error, to the last but one; and the
\* wrapper makes at most MAX_RETRIES + 1 channel calls.
C25_BadRequestNotRetried ==
    /\ [][(s_pc = "attempt" /\ trace' = Append(trace, "BadRequest"))
            => (s_pc' = "returned" /\ w_result' = "false")]_vars
    /\ [][(s_pc = "attempt" /\ trace' = Append(trace, "BadRequestParse"))
            => (s_pc' = "plain" /\ w_result' = "none")]_vars
    /\ [][(s_pc = "plain")
            => /\ s_pc' = "returned"
               /\ w_calls' = w_calls + 1
               /\ w_result' = (IF trace'[Len(trace')] = "ok" THEN "true" ELSE "false")]_vars
    /\ [](\A i \in 1..Len(trace) :
            /\ trace[i] = "BadRequest" => i = Len(trace)
            /\ trace[i] = "BadRequestParse" => i >= Len(trace) - 1)
    /\ [](w_calls = Len(trace) /\ w_calls <= MAX_RETRIES + 1)

\* the wrapper returned success at its call number MAX_RETRIES + 1: the call
\* without parse mode after a parse error at the last attempt
C25_Witness ==
    /\ s_pc = "returned"
    /\ w_result = "true"
    /\ w_calls = MAX_RETRIES + 1
    /\ trace[MAX_RETRIES] = "BadRequestParse"

(***************************************************************************)
(* upload_video (youtube_uploader.py, lines 276-333), specification         *)
(* SpecUpload.  A call of request.next_chunk returns (status, None) while   *)
(* the upload goes on ("chunk"), returns the response of the finished       *)
(* upload, which the code tests twice, with "is None" (line 294) and with   *)
(* its truth value (line 318): "response" is a response that is true,       *)
(* "empty" one that is not None and false (an empty object), or raises      *)
(* ("error").                                                               *)
(***************************************************************************)
UploadMaxRetries == {0, 1, UPLOAD_MAX_RETRIES}

UploadUnchanged ==
    UNCHANGED << senderVars, filterVars, pipeVars, crawlVars, driverVars, collectVars >>

\* upload_video returns ret
UploadReturn(ret) ==
    /\ u_pc' = "done"
    /\ u_ret' = ret

\* lines 276-285: initialize_upload returns the request
UploadStart(max_retries) ==
    /\ u_pc = "done"
    /\ u_max' = max_retries
    /\ u_retry_count' = 0
    /\ u_trace' = <<>>
    /\ u_attempts' = 0
    /\ u_ret' = "none"
    /\ u_pc' = "while"
    /\ UploadUnchanged

\* line 278: initialize_upload raises (MediaFileUpload of a file that cannot be
\* opened); the call is outside the try blocks
UploadStartRaises(max_retries) ==
    /\ u_pc = "done"
    /\ u_max' = max_retries
    /\ u_retry_count' = 0
    /\ u_trace' = <<>>
    /\ u_attempts' = 0
    /\ UploadReturn("raised")
    /\ UploadUnchanged

\* line 287: the test of the outer loop; line 333 when it fails
OuterLoop ==
    /\ u_pc = "while"
    /\ IF u_retry_count < u_max
       THEN /\ u_pc' = "chunk"
            /\ u_attempts' = u_attempts + 1
            /\ UNCHANGED u_ret
       ELSE /\ UploadReturn("None")
            /\ UNCHANGED u_attempts
    /\ UNCHANGED << u_max, u_retry_count, u_trace >>
    /\ UploadUnchanged

\* lines 294-299: next_chunk returns (status, None), the inner loop goes on
ChunkProgress ==
    /\ u_pc = "chunk"
    /\ Len(u_trace) < MaxChunkCalls
    /\ u_trace' = Append(u_trace, "chunk")
    /\ UNCHANGED << u_pc, u_max, u_retry_count, u_attempts, u_ret >>
    /\ UploadUnchanged

\* lines 296, 318-321: next_chunk returns a response that is true
ChunkResponse ==
    /\ u_pc = "chunk"
    /\ Len(u_trace) < MaxChunkCalls
    /\ u_trace' = Append(u_trace, "response")
    /\ UploadReturn("id")
    /\ UNCHANGED << u_max, u_retry_count, u_attempts >>
    /\ UploadUnchanged

\* lines 296, 305, 318: next_chunk returns a response that is not None and is
\* false: the inner loop ends, neither if is taken, and the outer loop goes on
ChunkEmpty ==
    /\ u_pc = "chunk"
    /\ Len(u_trace) < MaxChunkCalls
    /\ u_trace' = Append(u_trace, "empty")
    /\ u_pc' = "while"
    /\ UNCHANGED << u_max, u_retry_count, u_attempts, u_ret >>
    /\ UploadUnchanged

\* lines 300-316: next_chunk raises
ChunkError ==
    /\ u_pc = "chunk"
    /\ Len(u_trace) < MaxChunkCalls
    /\ u_trace' = Append(u_trace, "error")
    /\ u_retry_count' = u_retry_count + 1
    /\ IF u_retry_count + 1 < u_max
       THEN u_pc' = "reinit" /\ UNCHANGED u_ret
       ELSE UploadReturn("None")
    /\ UNCHANGED << u_max, u_attempts >>
    /\ UploadUnchanged

\* lines 309-312: after the sleep initialize_upload returns a new request
Reinit ==
    /\ u_pc = "reinit"
    /\ u_pc' = "while"
    /\ UNCHANGED << u_max, u_retry_count, u_trace, u_attempts, u_ret >>
    /\ UploadUnchanged

\* line 311 raises: the handler of lines 323-331 counts one more retry
ReinitRaises ==
    /\ u_pc = "reinit"
    /\ u_retry_count' = u_retry_count + 1
    /\ IF u_retry_count + 1 < u_max
       THEN u_pc' = "while" /\ UNCHANGED u_ret
       ELSE UploadReturn("None")
    /\ UNCHANGED << u_max, u_trace, u_attempts >>
    /\ UploadUnchanged

NextUpload ==
    \/ \E max_retries \in UploadMaxRetries : UploadStart(max_retries)
    \/ \E max_retries \in UploadMaxRetries : UploadStartRaises(max_retries)
    \/ OuterLoop
    \/ ChunkProgress
    \/ ChunkResponse
    \/ ChunkEmpty
    \/ ChunkError
    \/ Reinit
    \/ ReinitRaises

SpecUpload == Init /\ [][NextUpload]_vars

\* C26: upload_video enters its outer loop (makes an upload attempt) at most
\* max_retries times.
C26_AtMostMaxRetriesAttempts ==
    u_attempts <= u_max

\* without empty responses: at most max_retries attempts are made, every
\* iteration of the outer loop returns or counts a retry, and upload_video
\* returns the id at the first response
UploadBoundedWithoutEmpty ==
    (\A i \in 1..Len(u_trace) : u_trace[i] # "empty")
        => /\ u_attempts <= u_max
           /\ u_attempts <= u_retry_count + 1
           /\ u_ret = "id" <=> (u_trace # <<>> /\ u_trace[Len(u_trace)] = "response")

\* C27: primary/backup agreement.  The step that ends a save_sent_products
\* without an error leaves the two files equal, both holding the capped ledger;
\* the step that ends a load_sent_products that read a valid primary file or
\* recovered from the backup leaves the two files equal, both holding the
\* ledger that is returned.
C27_PrimaryBackupAgree ==
    /\ [][(pc = "save_b_w" /\ faults' = faults)
            => (primary' = backup' /\ primary' = Written(to_write))]_vars
    /\ [][(pc \in {"load_bk_w", "load_rs_w"} /\ faults' = faults)
            => /\ primary' = backup'
               /\ primary' = Written(sent_products')
               /\ loaded' = (IF pc = "load_bk_w" THEN "primary" ELSE "backup")]_vars
    /\ []((pc = "filter" /\ loaded \in {"primary", "backup"}) => primary = backup)

\* load_sent_products has recovered a ledger of the cap's length from the backup:
\* the primary file was rewritten and equals the backup
C27_Witness ==
    /\ pc = "filter"
    /\ loaded = "backup"
    /\ primary = backup
    /\ Len(primary.data) = MAX_SENT_PRODUCTS

\* the control points of main inside save_sent_products
SavePcs == {"save", "save_p_w", "save_b", "save_b_w"}

\* C28: save_sent_products trims only the copy it writes.  No step of a save,
\* one that applies the cap or one that fails included, changes the ledger of
\* main; for the rest of the run the ledger holds every link delivered in the
\* run, and a deal whose link is in the ledger is skipped without a channel
\* call, also when the file no longer holds the link.
C28_SaveLeavesLedger ==
    /\ [][(pc \in SavePcs /\ pc' # "idle") => sent_products' = sent_products]_vars
    /\ []((InLoop /\ pc # "sent") => delivered \subseteq LinksOf(sent_products))
    /\ [][(pc = "loop" /\ idx <= Len(filtered) /\ sent_count < MAX_SEND_COUNT
                /\ ProductId(CurrentDeal) \in LinksOf(sent_products) /\ pc' # "idle")
            => /\ pc' = "loop" /\ idx' = idx + 1
               /\ already_sent_count' = already_sent_count + 1
               /\ attempted' = attempted /\ calls' = 0]_vars

\* the loop goes on after a save that wrote the capped ledger: the ledger of
\* main is longer than the cap and holds links the primary file does not hold
C28_Witness ==
    /\ pc = "loop"
    /\ sent_count = SAVE_INTERVAL
    /\ primary = Written(Compact(sent_products))
    /\ Len(sent_products) > MAX_SENT_PRODUCTS
    /\ LinksOf(sent_products) \ LinksOf(primary.data) # {}

(***************************************************************************)
(* The browser of get_coupang_deals (crawler.py, lines 134-335) and of      *)
(* get_goldbox_deals (lines 337-554), specification SpecDriver.  A browser  *)
(* exists from the moment webdriver.Chrome(...) returns (line 68) until it  *)
(* is closed; the n-th browser created is the number n.  setup_driver       *)
(* (lines 38-84) calls driver.set_page_load_timeout(30) on the new browser  *)
(* inside the try block of the attempt (line 71), so an attempt can fail    *)
(* before the browser exists or after.                                      *)
(***************************************************************************)
DriverFns == {"coupang", "goldbox"}
\* the exceptions setup_driver tells apart (lines 75 and 82)
SetupErrors == {"WebDriverException", "Exception"}
\* how the body of the try block ends once setup_driver has returned: the page
\* does not load (lines 146-148, 354-356), no item is found (lines 207-209,
\* 425-427), an exception (lines 324-326, 539-541), deals is returned (lines
\* 322, 533-535), or, in get_goldbox_deals, deals is empty (lines 536-537)
PageOutcomes == {"load_failed", "no_items", "exception", "deals", "no_deals"}

DriverUnchanged ==
    UNCHANGED << senderVars, filterVars, pipeVars, crawlVars, uploadVars, collectVars >>

\* where the finally block leads after the outcome o: get_coupang_deals returns
\* on every path; get_goldbox_deals returns with deals and goes on to the next
\* URL otherwise
AfterOutcome(fn, o) ==
    IF fn = "coupang" \/ o = "deals" THEN "return" ELSE "next"

\* a call of get_coupang_deals or get_goldbox_deals (lines 141-143, 346-351)
DriverStart(fn) ==
    /\ b_pc = "idle"
    /\ b_pc' = "setup"
    /\ b_fn' = fn
    /\ b_url' = 1
    /\ b_attempt' = 0
    /\ b_driver' = 0
    /\ UNCHANGED << b_made, b_open, b_after, b_quit_raised >>
    /\ DriverUnchanged

\* an attempt of setup_driver succeeds (lines 41-73): the browser is created and
\* returned, and the caller assigns it to driver (lines 143, 351)
SetupReturns ==
    /\ b_pc = "setup"
    /\ b_made' = b_made + 1
    /\ b_open' = b_open \cup {b_made + 1}
    /\ b_driver' = b_made + 1
    /\ b_pc' = "page"
    /\ UNCHANGED << b_fn, b_url, b_attempt, b_after, b_quit_raised >>
    /\ DriverUnchanged

\* an attempt of setup_driver raises error (lines 75-84), before the browser was
\* created or, from set_page_load_timeout (line 71), after: a WebDriverException
\* before the last attempt starts the next attempt, anything else leaves
\* setup_driver, and the caller's except block (lines 324-326, 539-541) leads to
\* the finally block with driver still None
SetupRaises(created, error) ==
    /\ b_pc = "setup"
    /\ b_made' = IF created THEN b_made + 1 ELSE b_made
    /\ b_open' = IF created THEN b_open \cup {b_made + 1} ELSE b_open
    /\ IF error = "WebDriverException" /\ b_attempt < CRAWLER_MAX_RETRIES - 1
       THEN /\ b_attempt' = b_attempt + 1
            /\ UNCHANGED << b_pc, b_after >>
       ELSE /\ b_pc' = "finally"
            /\ b_after' = AfterOutcome(b_fn, "exception")
            /\ UNCHANGED b_attempt
    /\ UNCHANGED << b_fn, b_url, b_driver, b_quit_raised >>
    /\ DriverUnchanged

\* the body of the try block after setup_driver (lines 145-322, 353-537)
PageDone(o) ==
    /\ b_pc = "page"
    /\ o = "no_deals" => b_fn = "goldbox"
    /\ b_pc' = "finally"
    /\ b_after' = AfterOutcome(b_fn, o)
    /\ UNCHANGED << b_fn, b_url, b_attempt, b_driver, b_made, b_open, b_quit_raised >>
    /\ DriverUnchanged

\* the end of the finally block: the function returns, or the for loop of
\* get_goldbox_deals goes on to the next URL with driver = None (lines 346-349),
\* or is over (lines 553-554)
AfterFinally ==
    IF b_after = "return" \/ b_url = GOLDBOX_URLS
    THEN /\ b_pc' = "done"
         /\ UNCHANGED << b_url, b_attempt, b_driver >>
    ELSE /\ b_pc' = "setup"
         /\ b_url' = b_url + 1
         /\ b_attempt' = 0
         /\ b_driver' = 0

\* the finally block with driver None (lines 330, 545): nothing is quit
FinallyNoDriver ==
    /\ b_pc = "finally"
    /\ b_driver = 0
    /\ AfterFinally
    /\ UNCHANGED << b_fn, b_made, b_open, b_after, b_quit_raised >>
    /\ DriverUnchanged

\* the finally block with a driver (lines 330-333, 545-548): driver.quit()
\* returns and the browser is closed
FinallyQuit ==
    /\ b_pc = "finally"
    /\ b_driver # 0
    /\ b_open' = b_open \ {b_driver}
    /\ AfterFinally
    /\ UNCHANGED << b_fn, b_made, b_after, b_quit_raised >>
    /\ DriverUnchanged

\* driver.quit() raises and the exception is logged (lines 334-335, 549-550);
\* whether the browser was closed before quit() failed is not known
FinallyQuitRaises(closed) ==
    /\ b_pc = "finally"
    /\ b_driver # 0
    /\ b_open' = IF closed THEN b_open \ {b_driver} ELSE b_open
    /\ b_quit_raised' = b_quit_raised \cup {b_driver}
    /\ AfterFinally
    /\ UNCHANGED << b_fn, b_made, b_after >>
    /\ DriverUnchanged

NextDriver ==
    \/ \E fn \in DriverFns : DriverStart(fn)
    \/ SetupReturns
    \/ \E created \in BOOLEAN, error \in SetupErrors : SetupRaises(created, error)
    \/ \E o \in PageOutcomes : PageDone(o)
    \/ FinallyNoDriver
    \/ FinallyQuit
    \/ \E closed \in BOOLEAN : FinallyQuitRaises(closed)

SpecDriver == Init /\ [][NextDriver]_vars

\* the function is between two URLs (the for loop of get_goldbox_deals starts
\* its next iteration) or has returned
DriverMovedOn ==
    \/ b_pc = "done"
    \/ b_pc = "setup" /\ b_url > 1 /\ b_attempt = 0

\* C29: every browser created by get_coupang_deals or get_goldbox_deals is
\* closed before the function returns or goes on to the next URL, so at most
\* one browser is open at any time.
C29_DriversAreQuit ==
    /\ Cardinality(b_open) <= 1
    /\ DriverMovedOn => b_open = {}

\* what does hold: the finally block calls quit() on the browser setup_driver
\* returned, and the browser is closed unless quit() raised
HeldDriverIsQuit ==
    [][(b_pc = "finally" /\ b_driver # 0)
         => (b_driver \notin b_open' \/ b_driver \in b_quit_raised')]_vars

(***************************************************************************)
(* main of crawler.py (lines 581-632), specification SpecCollect.  A        *)
(* collected record is its link and its title: main reads deal["link"]      *)
(* only (line 623), and the title stands for the other fields, which tell   *)
(* two records of one link apart.                                           *)
(***************************************************************************)
CollectRecord(l, t) == [link |-> l, title |-> t]
\* one link collected with two different titles, and another link
CollectRecords ==
    {CollectRecord("a", "x"), CollectRecord("a", "y"), CollectRecord("b", "x")}
\* the lists get_goldbox_deals and get_coupang_deals can return
CollectBatches == UNION {[1..n -> CollectRecords] : n \in 0..MaxBatch}

CollectUnchanged ==
    UNCHANGED << senderVars, filterVars, pipeVars, crawlVars, uploadVars, driverVars >>

\* the loop of lines 622-625 over ds, with the set seen_links and the list
\* unique_deals it has built so far
RECURSIVE UniqueLoop(_, _, _)
UniqueLoop(ds, seen_links, unique_deals) ==
    IF ds = <<>>
    THEN unique_deals
    ELSE LET deal == Head(ds) IN
         IF deal.link \notin seen_links
         THEN UniqueLoop(Tail(ds), seen_links \cup {deal.link}, Append(unique_deals, deal))
         ELSE UniqueLoop(Tail(ds), seen_links, unique_deals)

\* lines 619-625
UniqueDeals(ds) == UniqueLoop(ds, {}, <<>>)

\* main starts (line 586)
CollectStart ==
    /\ m_pc = "idle"
    /\ m_pc' = "goldbox"
    /\ all_deals' = <<>>
    /\ UNCHANGED << m_page, m_returned, m_saved >>
    /\ CollectUnchanged

\* get_goldbox_deals returns goldbox_deals (lines 590-595); extending by an empty
\* list is what the else branch does
GoldboxCollected(goldbox_deals) ==
    /\ m_pc = "goldbox"
    /\ m_returned' = Append(m_returned, goldbox_deals)
    /\ all_deals' = all_deals \o goldbox_deals
    /\ m_page' = 1
    /\ m_pc' = "pages"
    /\ UNCHANGED m_saved
    /\ CollectUnchanged

\* one iteration of the loop over the pages (lines 598-614)
PageCollected(page_deals) ==
    /\ m_pc = "pages"
    /\ m_page <= CRAWLER_MAX_PAGES
    /\ m_returned' = Append(m_returned, page_deals)
    /\ all_deals' = all_deals \o page_deals
    /\ m_page' = m_page + 1
    /\ m_pc' = IF m_page = CRAWLER_MAX_PAGES THEN "result" ELSE "pages"
    /\ UNCHANGED m_saved
    /\ CollectUnchanged

\* the variant of SaveUnique that saves, for each link, the last record
\* collected with it
SaveUniqueLast ==
    /\ m_pc = "result"
    /\ all_deals # <<>>
    /\ m_saved' =
         [called |-> TRUE,
          deals |->
            LET u == UniqueDeals(all_deals) IN
            [i \in 1..Len(u) |->
                all_deals[CHOOSE k \in 1..Len(all_deals) :
                             /\ all_deals[k].link = u[i].link
                             /\ \A j \in (k + 1)..Len(all_deals) :
                                   all_deals[j].link # u[i].link]]]
    /\ m_pc' = "done"
    /\ UNCHANGED << m_page, m_returned, all_deals >>
    /\ CollectUnchanged

\* something was collected: the duplicates are removed and the rest is saved
\* (lines 617-630)
SaveUnique ==
    /\ m_pc = "result"
    /\ all_deals # <<>>
    /\ m_saved' = [called |-> TRUE, deals |-> UniqueDeals(all_deals)]
    /\ m_pc' = "done"
    /\ UNCHANGED << m_page, m_returned, all_deals >>
    /\ CollectUnchanged

\* nothing was collected (lines 631-632)
NothingCollected ==
    /\ m_pc = "result"
    /\ all_deals = <<>>
    /\ m_pc' = "done"
    /\ UNCHANGED << m_page, m_returned, all_deals, m_saved >>
    /\ CollectUnchanged

NextCollect ==
    \/ CollectStart
    \/ \E b \in CollectBatches : GoldboxCollected(b)
    \/ \E b \in CollectBatches : PageCollected(b)
    \/ SaveUnique
    \/ NothingCollected

SpecCollect == Init /\ [][NextCollect]_vars

\* the records collected, in collection order: what get_goldbox_deals returned,
\* then what get_coupang_deals returned for the pages 1..MAX_PAGES
RECURSIVE Collected(_)
Collected(returned) ==
    IF returned = <<>> THEN <<>> ELSE Head(returned) \o Collected(Tail(returned))

\* position k of ds is the first with its link
FirstOfLink(ds, k) == \A j \in 1..(k - 1) : ds[j].link # ds[k].link

\* C30: the batch the crawler's main saves has no two records with the same
\* link, has a record for every link collected, and holds for each link the
\* first record collected with it, in collection order (goldbox first, then the
\* pages 1..MAX_PAGES).
C30_SavedIsFirstOccurrences ==
    m_saved.called =>
        LET u == m_saved.deals
            all == Collected(m_returned)
        IN /\ Len(m_returned) = 1 + CRAWLER_MAX_PAGES
           /\ \A i, j \in 1..Len(u) : i # j => u[i].link # u[j].link
           /\ \A k \in 1..Len(all) : \E i \in 1..Len(u) : u[i].link = all[k].link
           /\ \A i \in 1..Len(u) :
                \E k \in 1..Len(all) : FirstOfLink(all, k) /\ u[i] = all[k]
           /\ \A i, j \in 1..Len(u) : \A ki, kj \in 1..Len(all) :
                (/\ i < j
                 /\ FirstOfLink(all, ki) /\ all[ki].link = u[i].link
                 /\ FirstOfLink(all, kj) /\ all[kj].link = u[j].link)
                    => ki < kj

\* a batch was saved in which the goldbox record of a link was kept and a
\* different record of the same link, collected from a page, was dropped, and
\* a second link follows
C30_Witness ==
    /\ m_saved.called
    /\ Len(m_saved.deals) = 2
    /\ Len(m_returned) = 1 + CRAWLER_MAX_PAGES
    /\ m_returned[1] # <<>>
    /\ m_saved.deals[1] = m_returned[1][1]
    /\ \E p \in 2..Len(m_returned) : \E k \in 1..Len(m_returned[p]) :
          /\ m_returned[p][k].link = m_saved.deals[1].link
          /\ m_returned[p][k] # m_saved.deals[1]
====
